---- MODULE Spec2Model ----
(***************************************************************************)
(* The glTF primitive builder of CesiumGltfComponent.cpp as a state        *)
(* machine: one build of one mesh primitive (loadPrimitive and the         *)
(* functions it calls), one action per code block of the build.            *)
(*                                                                         *)
(* Encodings.  A vector is a tuple of integers.  A unit vector is encoded  *)
(* as the primitive integer vector of its direction (GetSafeNormal).  A    *)
(* uint32 index is an integer; a negative integer v stands for 2^32 + v.   *)
(* Accessor ids are 0-based as in the source, sequences are 1-based.       *)
(***************************************************************************)
EXTENDS Integers, Sequences, FiniteSets, TLC

(* ------------------------------ bounds --------------------------------- *)

\* largest element count of the position accessor
MaxVerts == 3

\* largest element count of the index accessor
MaxIndices == 5

\* number of raster overlay slots of a primitive result
\* (primitiveResult.overlayTextureCoordinateIDToUVIndex.size())
OverlaySlotCount == 1

\* number of pipeline invocations in flight together
MaxInvocations == 2

(* -------------------------- program constants -------------------------- *)

\* std::numeric_limits<uint16>::max()
UInt16Max == 65535

\* stands for std::numeric_limits<double>::max(): above every coordinate
DoubleMax == 1000000

\* stands for std::numeric_limits<double>::lowest()
DoubleLowest == -1000000

(* ------------------------------ helpers -------------------------------- *)

Zero3 == <<0, 0, 0>>

Sub3(a, b) == <<a[1] - b[1], a[2] - b[2], a[3] - b[3]>>

Add3(a, b) == <<a[1] + b[1], a[2] + b[2], a[3] + b[3]>>

CrossProduct(a, b) ==
  <<a[2] * b[3] - a[3] * b[2], a[3] * b[1] - a[1] * b[3], a[1] * b[2] - a[2] * b[1]>>

Abs(x) == IF x < 0 THEN -x ELSE x

RECURSIVE Gcd(_, _)
Gcd(a, b) == IF b = 0 THEN a ELSE Gcd(b, a % b)

\* FVector::GetSafeNormal: the zero vector stays zero, every other vector is
\* scaled to unit length (encoded as the primitive vector of its direction)
GetSafeNormal(v) ==
  LET g == Gcd(Gcd(Abs(v[1]), Abs(v[2])), Abs(v[3]))
  IN IF g = 0 THEN Zero3 ELSE <<v[1] \div g, v[2] \div g, v[3] \div g>>

MinOf(a, b) == IF a < b THEN a ELSE b

MaxOf(a, b) == IF a > b THEN a ELSE b

\* a function extended or overwritten at one key
Put(f, k, v) == [x \in (DOMAIN f) \cup {k} |-> IF x = k THEN v ELSE f[x]]

EmptyMap == [x \in {} |-> 0]

(* --------------------------- the scene asset --------------------------- *)

ViewValid == "Valid"

ViewInvalid == "InvalidAccessorIndex"

\* CesiumGltf::Accessor with the data its view reads
Accessor(componentType, type, status, data, min, max) ==
  [componentType |-> componentType, type |-> type, status |-> status,
   data |-> data, min |-> min, max |-> max]

NoTexture == [present |-> FALSE, index |-> -1, texCoord |-> 0]

TextureInfo(index, texCoord) == [present |-> TRUE, index |-> index, texCoord |-> texCoord]

\* CesiumGltf::Material, with the textures of its pbrMetallicRoughness
Material(baseColor, metallicRoughness, normal, occlusion, emissive) ==
  [baseColorTexture |-> baseColor, metallicRoughnessTexture |-> metallicRoughness,
   normalTexture |-> normal, occlusionTexture |-> occlusion,
   emissiveTexture |-> emissive]

\* static const CesiumGltf::Material defaultMaterial
defaultMaterial == Material(NoTexture, NoTexture, NoTexture, NoTexture, NoTexture)

\* CesiumGltf::Model::getSafe: is the id an index of the sequence
InRange(id, count) == id >= 0 /\ id < count

\* CesiumGltf::AccessorView<T>(model, accessorID)
AccessorView(m, accessorID) ==
  IF InRange(accessorID, Len(m.accessors))
  THEN [status |-> m.accessors[accessorID + 1].status,
        componentType |-> m.accessors[accessorID + 1].componentType,
        type |-> m.accessors[accessorID + 1].type,
        data |-> m.accessors[accessorID + 1].data]
  ELSE [status |-> ViewInvalid, componentType |-> "NONE", type |-> "NONE",
        data |-> <<>>]

ViewSize(view) == IF view.status = ViewValid THEN Len(view.data) ELSE 0

(* ------------------------ texture coordinates -------------------------- *)

Zero2 == <<0, 0>>

\* "TEXCOORD_" + std::to_string(texCoord)
TexCoordName(texCoord) ==
  CASE texCoord = 0 -> "TEXCOORD_0"
    [] texCoord = 1 -> "TEXCOORD_1"
    [] OTHER -> "TEXCOORD_2"

\* "_CESIUMOVERLAY_" + std::to_string(i)
OverlayName(i) ==
  CASE i = 0 -> "_CESIUMOVERLAY_0"
    [] i = 1 -> "_CESIUMOVERLAY_1"
    [] i = 2 -> "_CESIUMOVERLAY_2"
    [] OTHER -> "_CESIUMOVERLAY_3"

\* the copy loops of updateTextureCoordinates: channel tci of every vertex
\* gets the accessor's element, or (0,0) when the accessor is too short
CopyUVs(dup, vertices, idx, uvAccessor, tci) ==
  [i \in 1..Len(vertices) |->
    LET vertexIndex == IF dup THEN idx[i] ELSE i - 1
        uv == IF InRange(vertexIndex, Len(uvAccessor.data))
              THEN uvAccessor.data[vertexIndex + 1]
              ELSE Zero2
    IN IF dup /\ i > Len(idx)
       THEN vertices[i]
       ELSE [vertices[i] EXCEPT !.UVs = Put(@, tci, uv)]]

\* the map insertion of updateTextureCoordinates: the next unused channel
NextChannel(tcMap) == Cardinality(DOMAIN tcMap)

\* what updateTextureCoordinates returns for an accessor it has just mapped
\* to channel tci
FirstReturn(uvAccessor, tci) == IF uvAccessor.status # ViewValid THEN 0 ELSE tci

\* updateTextureCoordinates(model, primitive, duplicateVertices, vertices,
\* indices, attributeName, textureCoordinateMap): the value returned, and
\* the map and the vertices as the call leaves them
updateTextureCoordinates(m, prim, dup, vertices, idx, attributeName, tcMap) ==
  IF attributeName \notin DOMAIN prim.attributes
  THEN [ret |-> 0, map |-> tcMap, vertices |-> vertices,
        found |-> FALSE, accessor |-> 0]
  ELSE LET uvAccessorID == prim.attributes[attributeName]
       IN IF uvAccessorID \in DOMAIN tcMap
          THEN [ret |-> tcMap[uvAccessorID], map |-> tcMap, vertices |-> vertices,
                found |-> TRUE, accessor |-> uvAccessorID]
          ELSE LET textureCoordinateIndex == NextChannel(tcMap)
                   uvAccessor == AccessorView(m, uvAccessorID)
               IN [ret |-> FirstReturn(uvAccessor, textureCoordinateIndex),
                   map |-> Put(tcMap, uvAccessorID, textureCoordinateIndex),
                   vertices |->
                     IF uvAccessor.status # ViewValid
                     THEN vertices
                     ELSE CopyUVs(dup, vertices, idx, uvAccessor,
                                  textureCoordinateIndex),
                   found |-> TRUE, accessor |-> uvAccessorID]

\* updateTextureCoordinates<T>(..., const std::optional<T>& texture, ...)
updateTextureCoordinatesOfTexture(m, prim, dup, vertices, idx, texture, tcMap) ==
  IF ~texture.present
  THEN [ret |-> 0, map |-> tcMap, vertices |-> vertices,
        found |-> FALSE, accessor |-> 0]
  ELSE updateTextureCoordinates(m, prim, dup, vertices, idx,
                                TexCoordName(texture.texCoord), tcMap)

(* --------------------------- index handling ---------------------------- *)

\* "copy TRIANGLE indices"
TriangleIndices(data) == [i \in 1..Len(data) |-> data[i]]

\* a faulty expansion: odd triangles are not flipped
TriangleStripUnflipped(data) ==
  [j \in 1..(3 * (Len(data) - 2)) |-> data[((j - 1) \div 3) + 1 + ((j - 1) % 3)]]

\* "copy TRIANGLE_STRIP indices", for a strip of at least two indices
TriangleStripIndices(data) ==
  [j \in 1..(3 * (Len(data) - 2)) |->
    LET i == (j - 1) \div 3
        r == (j - 1) % 3
    IN IF i % 2 = 1
       THEN (CASE r = 0 -> data[i + 1]
               [] r = 1 -> data[i + 3]
               [] OTHER -> data[i + 2])
       ELSE data[i + 1 + r]]

\* "reverse winding order of duplicated vertices"
ReverseWindingDuplicated(idx) ==
  [j \in 1..Len(idx) |->
    LET k == (j - 1) \div 3
        r == (j - 1) % 3
    IN IF 3 * k + 2 < Len(idx) THEN 3 * k + (2 - r) ELSE idx[j]]

\* a faulty reversal: the whole buffer back to front, which also reverses
\* the order of the triangles
ReverseWholeBuffer(idx) == [j \in 1..Len(idx) |-> idx[Len(idx) - j + 1]]

\* "reverse winding order": std::swap(indices[i - 2], indices[i])
ReverseWindingShared(idx) ==
  [j \in 1..Len(idx) |->
    LET k == (j - 1) \div 3
        r == (j - 1) % 3
    IN IF 3 * k + 2 < Len(idx) THEN idx[3 * k + (2 - r) + 1] ELSE idx[j]]

\* a faulty decision: missing tangents duplicate whether required or not
DuplicateWithoutTangentPolicy(hasN, needsT, hasT) == ~hasN \/ ~hasT

\* the deduplication decision
DuplicateVertices(hasN, needsT, hasT) == ~hasN \/ (needsT /\ ~hasT)

(* ------------------------------ colors --------------------------------- *)

\* value * 255.0f cut to an integer, for a float given in thousandths
TruncateTimes255(value) ==
  IF value >= 0 THEN (value * 255) \div 1000 ELSE -(((-value) * 255) \div 1000)

UInt8Max == 255

\* does uint8_t(value * 255.0f) have a defined result
FitsUInt8(value) == TruncateTimes255(value) \in 0..UInt8Max

\* uint8_t(x) for an x that uint8_t cannot hold is undefined: the builds
\* at hand wrap it or saturate it
FloatCasts == {"wrap", "saturate"}

CastToUInt8(x, cast) ==
  IF x \in 0..UInt8Max THEN x
  ELSE IF cast = "wrap" THEN x % (UInt8Max + 1)
  ELSE IF x < 0 THEN 0 ELSE UInt8Max

\* ColorVisitor::convertElement; a float channel is given in thousandths
convertElement(componentType, value, cast) ==
  CASE componentType = "UNSIGNED_BYTE" -> value
    [] componentType = "UNSIGNED_SHORT" -> value \div 256
    [] OTHER -> CastToUInt8(TruncateTimes255(value), cast)

\* the element shapes ColorVisitor::convertColor converts
ColorConvertible(view) ==
  /\ view.type \in {"VEC3", "VEC4"}
  /\ view.componentType \in {"FLOAT", "UNSIGNED_BYTE", "UNSIGNED_SHORT"}

\* ColorVisitor::convertColor
convertColor(view, color, cast) ==
  <<convertElement(view.componentType, color[1], cast),
    convertElement(view.componentType, color[2], cast),
    convertElement(view.componentType, color[3], cast),
    IF view.type = "VEC3" THEN UInt8Max
    ELSE convertElement(view.componentType, color[4], cast)>>

\* the casts a color view can meet: both for a float view with a channel
\* that uint8_t cannot hold, else one
CastsOf(view) ==
  IF /\ view.status = ViewValid
     /\ view.componentType = "FLOAT"
     /\ view.type \in {"VEC3", "VEC4"}
     /\ \E i \in 1..Len(view.data) :
          \E c \in 1..Len(view.data[i]) : ~FitsUInt8(view.data[i][c])
  THEN FloatCasts
  ELSE {"wrap"}

\* ColorVisitor::operator(): the number of vertices converted before the
\* loop stops, and whether it ran to the end
ColorVisit(view, dup, vertices, idx, cast) ==
  LET n == IF dup THEN Len(idx) ELSE Len(vertices)
      vertexIndex(i) == IF dup THEN idx[i] ELSE i - 1
      bad == {i \in 1..n :
                \/ ~InRange(vertexIndex(i), Len(view.data))
                \/ ~ColorConvertible(view)}
      stop == IF bad = {} THEN n + 1
              ELSE CHOOSE i \in bad : \A j \in bad : i <= j
  IN IF view.status # ViewValid
     THEN [success |-> FALSE, vertices |-> vertices]
     ELSE [success |-> bad = {},
           vertices |->
             [i \in 1..Len(vertices) |->
               IF i < stop /\ i <= n
               THEN Put(vertices[i], "Color",
                        convertColor(view, view.data[vertexIndex(i) + 1], cast))
               ELSE vertices[i]]]

(* ----------------------- textures and water mask ----------------------- *)

\* CesiumTextureUtility::loadTextureAnyThreadPart(model, texture): a texture
\* is loaded when its source is an image of the model
loadTextureAnyThreadPart(m, texture) == InRange(texture.source, m.images)

\* loadTexture(model, gltfTexture): is the result non-null
loadTexture(m, gltfTexture) ==
  IF ~gltfTexture.present \/ ~InRange(gltfTexture.index, Len(m.textures))
  THEN FALSE
  ELSE loadTextureAnyThreadPart(m, m.textures[gltfTexture.index + 1])

\* applyWaterMask: onlyWater, onlyLand and whether a water mask was loaded
applyWaterMask(m, prim) ==
  LET extras == prim.extras
  IN IF "OnlyWater" \in DOMAIN extras /\ "OnlyLand" \in DOMAIN extras
     THEN [onlyWater |-> extras.OnlyWater,
           onlyLand |-> extras.OnlyLand,
           waterMaskTexture |->
             /\ ~extras.OnlyWater
             /\ ~extras.OnlyLand
             /\ "WaterMaskTex" \in DOMAIN extras
             /\ InRange(extras.WaterMaskTex, Len(m.textures))
             /\ loadTexture(m, TextureInfo(extras.WaterMaskTex, 0))]
     ELSE [onlyWater |-> FALSE, onlyLand |-> TRUE, waterMaskTexture |-> FALSE]

\* the material a primitive resolves to
MaterialOf(m, prim) ==
  IF InRange(prim.material, Len(m.materials))
  THEN m.materials[prim.material + 1]
  ELSE defaultMaterial

\* hasNormalMap: the normal texture resolves to a texture with an image
HasNormalMap(m, material) ==
  /\ material.normalTexture.present
  /\ InRange(material.normalTexture.index, Len(m.textures))
  /\ InRange(m.textures[material.normalTexture.index + 1].source, m.images)

\* a faulty requirement: the water effect is left out
NeedsTangentsWithoutWater(hasNormalMap, alwaysIncludeTangents, water) ==
  hasNormalMap \/ alwaysIncludeTangents

\* needsTangents
NeedsTangents(hasNormalMap, alwaysIncludeTangents, water) ==
  \/ hasNormalMap
  \/ alwaysIncludeTangents
  \/ water.onlyWater
  \/ water.waterMaskTexture

(* --------------------------- bounding volume --------------------------- *)

\* a faulty minimum: the fold starts from 0
RECURSIVE FoldMinFromZero(_, _, _)
FoldMinFromZero(data, axis, n) ==
  IF n = 0 THEN 0 ELSE MinOf(FoldMinFromZero(data, axis, n - 1), data[n][axis])

RECURSIVE FoldMin(_, _, _)
FoldMin(data, axis, n) ==
  IF n = 0 THEN DoubleMax ELSE MinOf(FoldMin(data, axis, n - 1), data[n][axis])

RECURSIVE FoldMax(_, _, _)
FoldMax(data, axis, n) ==
  IF n = 0 THEN DoubleLowest ELSE MaxOf(FoldMax(data, axis, n - 1), data[n][axis])

\* does the position accessor declare the box
UsesDeclaredBox(min, max) == ~(Len(min) # 3 \/ Len(max) # 3)

\* "compute AA bounding box": the corners of aaBox
BoundingBox(positionAccessor, view) ==
  IF UsesDeclaredBox(positionAccessor.min, positionAccessor.max)
  THEN [Min |-> <<positionAccessor.min[1], positionAccessor.min[2],
                  positionAccessor.min[3]>>,
        Max |-> <<positionAccessor.max[1], positionAccessor.max[2],
                  positionAccessor.max[3]>>]
  ELSE [Min |-> [a \in 1..3 |-> FoldMin(view.data, a, Len(view.data))],
        Max |-> [a \in 1..3 |-> FoldMax(view.data, a, Len(view.data))]]

\* FBox::GetCenterAndExtents; origin and extent are kept doubled, so that
\* they stay integers: Origin2 = 2 * Origin, BoxExtent2 = 2 * BoxExtent
GetCenterAndExtents(aaBox) ==
  [Origin2 |-> Add3(aaBox.Min, aaBox.Max), BoxExtent2 |-> Sub3(aaBox.Max, aaBox.Min)]

\* the square of twice the distance of a position from the origin
Distance2Sq(position, origin2) ==
  LET d == Sub3(<<2 * position[1], 2 * position[2], 2 * position[3]>>, origin2)
  IN d[1] * d[1] + d[2] * d[2] + d[3] * d[3]

RECURSIVE SphereRadius2Sq(_, _, _)
SphereRadius2Sq(vertices, origin2, n) ==
  IF n = 0 THEN 0
  ELSE MaxOf(Distance2Sq(vertices[n].Position, origin2),
             SphereRadius2Sq(vertices, origin2, n - 1))

(* ------------------------------ vertices ------------------------------- *)

\* a FStaticMeshBuildVertex is a record of the fields assigned so far; its
\* UVs maps the channels written so far.  The position copy writes the
\* position and zeroes UVs[0] and UVs[2]
NewVertex(position) == [Position |-> position, UVs |-> (0 :> Zero2) @@ (2 :> Zero2)]

\* a faulty copy: every duplicated vertex gets the position of the first
\* index
DuplicatedPositionsOfFirst(idx, view) ==
  [i \in 1..Len(idx) |-> NewVertex(view.data[idx[1] + 1])]

\* "copy duplicated positions"
DuplicatedPositions(idx, view) ==
  [i \in 1..Len(idx) |-> NewVertex(view.data[idx[i] + 1])]

\* "copy positions"
SharedPositions(view) == [i \in 1..Len(view.data) |-> NewVertex(view.data[i])]

\* the source elements a per-vertex copy loop reads: indices[i] for
\* duplicated vertices, i otherwise
SourceIndex(dup, idx, i) == IF dup THEN idx[i] ELSE i - 1

\* would a per-vertex copy loop read past the end of the accessor
ReadsPastEnd(dup, count, idx, view) ==
  \E i \in 1..count : ~InRange(SourceIndex(dup, idx, i), Len(view.data))

WithNormal(vertex, normal) ==
  Put(Put(Put(vertex, "TangentX", Zero3), "TangentY", Zero3), "TangentZ", normal)

\* "copy normals for duplicated vertices" and "copy normals"
CopyNormalsFrom(dup, vertices, idx, normalAccessor) ==
  [i \in 1..Len(vertices) |->
    WithNormal(vertices[i], normalAccessor.data[SourceIndex(dup, idx, i) + 1])]

\* a faulty normal: the two edges of the triangle in the other order
computeFlatNormalsFlipped(idx, vertices, partial) ==
  [i \in 1..Len(vertices) |->
    LET k == (i - 1) \div 3
    IN IF 3 * k + 3 <= Len(vertices)
       THEN LET v0 == vertices[3 * k + 1]
                v1 == vertices[3 * k + 2]
                v2 == vertices[3 * k + 3]
                normal == CrossProduct(Sub3(v2.Position, v0.Position),
                                       Sub3(v1.Position, v0.Position))
            IN WithNormal(vertices[i], GetSafeNormal(normal))
       ELSE WithNormal(vertices[i], partial)]

\* computeFlatNormals on the whole triangles; the vertices of a trailing
\* partial triangle get the given normal
computeFlatNormals(idx, vertices, partial) ==
  [i \in 1..Len(vertices) |->
    LET k == (i - 1) \div 3
    IN IF 3 * k + 3 <= Len(vertices)
       THEN LET v0 == vertices[3 * k + 1]
                v1 == vertices[3 * k + 2]
                v2 == vertices[3 * k + 3]
                normal == CrossProduct(Sub3(v1.Position, v0.Position),
                                       Sub3(v2.Position, v0.Position))
            IN WithNormal(vertices[i], GetSafeNormal(normal))
       ELSE WithNormal(vertices[i], partial)]

Scale3(v, w) == <<v[1] * w, v[2] * w, v[3] * w>>

\* "copy tangents for duplicated vertices" and "copy tangents"
CopyTangentsFrom(dup, vertices, idx, tangentAccessor) ==
  [i \in 1..Len(vertices) |->
    LET tangent == tangentAccessor.data[SourceIndex(dup, idx, i) + 1]
        tangentX == <<tangent[1], tangent[2], tangent[3]>>
    IN [vertices[i] EXCEPT
          !.TangentX = tangentX,
          !.TangentY = Scale3(CrossProduct(vertices[i].TangentZ, tangentX),
                              tangent[4])]]

\* computeTangentSpace: genTangSpaceDefault writes a tangent and a bitangent
\* to the vertices of every whole face (vertices.Num() / 3 faces).  The
\* tangent it computes is external; the direction of the face's first edge
\* stands for it
computeTangentSpace(vertices) ==
  [i \in 1..Len(vertices) |->
    LET k == (i - 1) \div 3
    IN IF k < Len(vertices) \div 3
       THEN LET tangentX == GetSafeNormal(Sub3(vertices[3 * k + 2].Position,
                                               vertices[3 * k + 1].Position))
            IN [vertices[i] EXCEPT
                  !.TangentX = tangentX,
                  !.TangentY = CrossProduct(vertices[i].TangentZ, tangentX)]
       ELSE vertices[i]]

(* ------------------------------ collision ------------------------------ *)

UInt16Modulus == UInt16Max + 1

\* static_cast<TIndex>(value): TIndex is uint16 (narrow) or int32
CastIndex(narrowType, value) == IF narrowType THEN value % UInt16Modulus ELSE value

\* a faulty triangle: the indices in buffer order
ChaosTriangleInOrder(narrowType, idx, i) ==
  <<CastIndex(narrowType, idx[3 * i + 1]),
    CastIndex(narrowType, idx[3 * i + 2]),
    CastIndex(narrowType, idx[3 * i + 3])>>

\* fillTriangles<TIndex>: TIndex index0 = 3 * i
ChaosIndex0(narrowType, i) == CastIndex(narrowType, 3 * i)

\* fillTriangles<TIndex>: static_cast<TIndex>(triangleCount), where the loop ends
ChaosLoopEnd(narrowType, triangleCount) == CastIndex(narrowType, triangleCount)

\* one triangle of fillTriangles<TIndex>
ChaosTriangle(narrowType, idx, i) ==
  LET index0 == ChaosIndex0(narrowType, i)
  IN <<CastIndex(narrowType, idx[index0 + 2]),
       CastIndex(narrowType, idx[index0 + 1]),
       CastIndex(narrowType, idx[index0 + 3])>>

\* fillTriangles<TIndex>(triangles, vertexData, indices, triangleCount)
fillTriangles(narrowType, idx, triangleCount) ==
  [k \in 1..ChaosLoopEnd(narrowType, triangleCount) |->
    ChaosTriangle(narrowType, idx, k - 1)]

\* the narrow (uint16) triangle type is used below this vertex count
UsesNarrowIndices(vertexCount) == vertexCount < UInt16Max

\* BuildChaosTriangleMeshes(vertexData, indices)
BuildChaosTriangleMeshes(vertexData, idx) ==
  LET vertexCount == Len(vertexData)
      triangleCount == Len(idx) \div 3
      narrowType == UsesNarrowIndices(vertexCount)
  IN [kind |-> "Chaos",
      indexBits |-> IF narrowType THEN 16 ELSE 32,
      vertices |-> [i \in 1..vertexCount |-> vertexData[i].Position],
      triangles |-> fillTriangles(narrowType, idx, triangleCount)]

\* one FTriIndices of BuildPhysXTriangleMeshes
PhysXTriangle(idx, i) == <<idx[3 * i + 1], idx[3 * i + 2], idx[3 * i + 3]>>

\* BuildPhysXTriangleMeshes(pCollisionMesh, pPhysXCooking, vertexData, indices)
\* with a cooking interface
BuildPhysXTriangleMeshes(vertexData, idx) ==
  LET vertexCount == Len(vertexData)
      triangleCount == Len(idx) \div 3
  IN [kind |-> "PhysX",
      indexBits |-> 32,
      vertices |-> [i \in 1..vertexCount |-> vertexData[i].Position],
      triangles |-> [k \in 1..triangleCount |-> PhysXTriangle(idx, k - 1)]]

NoCollisionMesh == [kind |-> "none", indexBits |-> 0, vertices |-> <<>>, triangles |-> <<>>]

\* a faulty stride: wide only above the largest 16-bit value
IndexStrideAboveMax(count) == IF count > UInt16Max THEN 32 ELSE 16

\* the stride SetIndices is given
IndexStride(count) == IF count >= UInt16Max THEN 32 ELSE 16

\* the number of UV channels StaticMeshVertexBuffer.Init is given
\* a faulty count: one channel more than the map has entries
NumTexCoordsPlusOne(tcMap) == Cardinality(DOMAIN tcMap) + 1

NumTexCoords(tcMap) ==
  IF Cardinality(DOMAIN tcMap) = 0 THEN 1 ELSE Cardinality(DOMAIN tcMap)

(* ------------------------------- state --------------------------------- *)

VARIABLES
  model,                   \* the scene asset (read only)
  primitive,               \* the mesh primitive being built (read only)
  options,                 \* the model options (read only)
  pc,                      \* the code block the build is at
  log,                     \* the warnings logged so far
  positionView,            \* loadPrimitive's view of the POSITION accessor
  indicesView,             \* the index view, or the synthetic index buffer
  primitiveResult,         \* the LoadPrimitiveResult being filled
  hasNormals,
  hasTangents,
  needsTangents,
  duplicateVertices,
  indices,
  StaticMeshBuildVertices,
  hasVertexColors,
  textureCoordinateMap,
  RenderData,
  walkPc,                  \* the place loadModelAnyThreadPart is at
  rootTransform,           \* loadModelAnyThreadPart's rootTransform
  roots,                   \* the roots being iterated, and the next one
  callStack,               \* the loadNode / loadMesh calls in progress
  nodeResults,             \* LoadModelResult::nodeResults
  widthPc,                 \* the place the choice of the index widths is at
  vertexCount,             \* StaticMeshBuildVertices.Num() / vertexData.Num()
  indexCount,              \* indices.Num()
  stride,                  \* the stride SetIndices was given, in bits
  narrow,                  \* is TIndex of fillTriangles uint16
  fill,                    \* fillTriangles: i, the triangles added, the last index0
  nextMaterialId,          \* the static counter of material slot names
  invocations,             \* the pipeline invocations: stage, result, meshes
  gameThread               \* the invocation CreateOnGameThread runs for, or 0

vars ==
  <<model, primitive, options, pc, log, positionView, indicesView,
    primitiveResult, hasNormals, hasTangents, needsTangents, duplicateVertices,
    indices, StaticMeshBuildVertices, hasVertexColors, textureCoordinateMap,
    RenderData, walkPc, rootTransform, roots, callStack, nodeResults,
    widthPc, vertexCount, indexCount, stride, narrow, fill,
    nextMaterialId, invocations, gameThread>>

inputs == <<model, primitive, options>>

\* the state of the scene walk, which a primitive build leaves alone
walker == <<walkPc, rootTransform, roots, callStack, nodeResults>>

\* the choice of the index widths on counts alone
sizes == <<widthPc, vertexCount, indexCount, stride, narrow, fill>>

NoFill == [i |-> 0, added |-> 0, index0 |-> -1]

\* the static counter and the invocations of the pipeline
game == <<nextMaterialId, invocations, gameThread>>

\* an invocation of the pipeline before CreateOffGameThread has returned:
\* its options, and no HalfConstructed yet
Requested(asset) ==
  [options |-> asset, stage |-> "requested", loadModelResult |-> <<>>,
   next |-> 1, meshes |-> <<>>]

\* the one invocation the scene walk belongs to, and a counter at its
\* initial value
IdleGame ==
  /\ nextMaterialId = 0
  /\ invocations = [i \in {1} |-> Requested("model")]
  /\ gameThread = 0

\* no choice of widths in progress
IdleSizes ==
  /\ widthPc = "idle"
  /\ vertexCount = 0
  /\ indexCount = 0
  /\ stride = 0
  /\ narrow = FALSE
  /\ fill = NoFill

NoRoots == [kind |-> "none", ids |-> <<>>, next |-> 1]

TextureSlotNames ==
  <<"baseColorTextureCoordinateIndex", "metallicRoughnessTextureCoordinateIndex",
    "normalTextureCoordinateIndex", "occlusionTextureCoordinateIndex",
    "emissiveTextureCoordinateIndex">>

NoView == [status |-> ViewInvalid, componentType |-> "NONE", type |-> "NONE", data |-> <<>>]

\* a LoadPrimitiveResult as emplace_back() constructs it
NewPrimitiveResult ==
  [onlyWater |-> FALSE, onlyLand |-> FALSE, waterMaskTexture |-> FALSE,
   textures |-> EmptyMap,
   textureCoordinateParameters |-> EmptyMap,
   overlayTextureCoordinateIDToUVIndex |-> [i \in 1..OverlaySlotCount |-> 0],
   RenderData |-> FALSE,
   pCollisionMesh |-> NoCollisionMesh]

NoRenderData ==
  [allocated |-> FALSE,
   aaBox |-> [Min |-> Zero3, Max |-> Zero3],
   Bounds |-> [Origin2 |-> Zero3, BoxExtent2 |-> Zero3, SphereRadius2Sq |-> 0],
   bHasColorVertexData |-> FALSE,
   PositionVertexBuffer |-> -1,
   ColorVertexBuffer |-> FALSE,
   NumTexCoords |-> -1,
   Section |-> [NumTriangles |-> -1, MaxVertexIndex |-> -1],
   IndexBuffer |-> [indices |-> <<>>, stride |-> 0]]

\* the state a build starts in, for a given asset, primitive and options
InitBuild(m, prim, opts) ==
  /\ model = m
  /\ primitive = prim
  /\ options = opts
  /\ pc = "loadPrimitive"
  /\ log = <<>>
  /\ positionView = NoView
  /\ indicesView = NoView
  /\ primitiveResult = NewPrimitiveResult
  /\ hasNormals = FALSE
  /\ hasTangents = FALSE
  /\ needsTangents = FALSE
  /\ duplicateVertices = FALSE
  /\ indices = <<>>
  /\ StaticMeshBuildVertices = <<>>
  /\ hasVertexColors = FALSE
  /\ textureCoordinateMap = EmptyMap
  /\ RenderData = NoRenderData
  /\ walkPc = "idle"
  /\ rootTransform = <<>>
  /\ roots = NoRoots
  /\ callStack = <<>>
  /\ nodeResults = <<>>
  /\ IdleSizes
  /\ IdleGame

(* ------------------------------ actions -------------------------------- *)

IndexComponentTypes == {"BYTE", "UNSIGNED_BYTE", "SHORT", "UNSIGNED_SHORT", "UNSIGNED_INT"}

\* std::vector<uint32_t> syntheticIndexBuffer: 0, 1, ..., size - 1
SyntheticIndexBuffer(size) ==
  [status |-> ViewValid, componentType |-> "SYNTHETIC", type |-> "SCALAR",
   data |-> [i \in 1..size |-> i - 1]]

\* loadPrimitive(result, transform, options), with loadIndexedPrimitive: find
\* the position accessor and pick the index source
loadPrimitive ==
  /\ pc = "loadPrimitive"
  /\ IF "POSITION" \notin DOMAIN primitive.attributes
     THEN /\ pc' = "skipped"
          /\ UNCHANGED <<positionView, indicesView>>
     ELSE IF ~InRange(primitive.attributes["POSITION"], Len(model.accessors))
     THEN /\ pc' = "skipped"
          /\ UNCHANGED <<positionView, indicesView>>
     ELSE LET view == AccessorView(model, primitive.attributes["POSITION"])
          IN /\ positionView' = view
             /\ IF primitive.indices < 0 \/ primitive.indices >= Len(model.accessors)
                THEN /\ indicesView' = SyntheticIndexBuffer(ViewSize(view))
                     /\ pc' = "validate"
                ELSE IF model.accessors[primitive.indices + 1].componentType
                          \in IndexComponentTypes
                THEN /\ indicesView' = AccessorView(model, primitive.indices)
                     /\ pc' = "validate"
                ELSE /\ pc' = "skipped"
                     /\ UNCHANGED indicesView
  /\ UNCHANGED <<inputs, walker, sizes, game, log, primitiveResult, hasNormals, hasTangents,
                 needsTangents, duplicateVertices, indices,
                 StaticMeshBuildVertices, hasVertexColors, textureCoordinateMap,
                 RenderData>>

\* loadPrimitive<TIndexAccessor>: the checks that skip the primitive
ValidatePrimitive ==
  /\ pc = "validate"
  /\ IF primitive.mode \notin {"TRIANGLES", "TRIANGLE_STRIP"}
     THEN /\ log' = Append(log, "Primitive mode is not supported")
          /\ pc' = "skipped"
     ELSE IF positionView.status # ViewValid
     THEN /\ log' = Append(log, "Invalid position buffer")
          /\ pc' = "skipped"
     ELSE IF indicesView.componentType # "SYNTHETIC" /\ indicesView.status # ViewValid
     THEN /\ log' = Append(log, "Invalid indices buffer")
          /\ pc' = "skipped"
     ELSE /\ pc' = "attributes"
          /\ UNCHANGED log
  /\ UNCHANGED <<inputs, walker, sizes, game, positionView, indicesView, primitiveResult, hasNormals,
                 hasTangents, needsTangents, duplicateVertices, indices,
                 StaticMeshBuildVertices, hasVertexColors, textureCoordinateMap,
                 RenderData>>

\* is the attribute present with a valid view
HasValidAttribute(m, prim, name) ==
  /\ name \in DOMAIN prim.attributes
  /\ AccessorView(m, prim.attributes[name]).status = ViewValid

\* is the attribute present with an invalid view
HasInvalidAttribute(m, prim, name) ==
  /\ name \in DOMAIN prim.attributes
  /\ AccessorView(m, prim.attributes[name]).status # ViewValid

\* loadPrimitive<TIndexAccessor>: normals, material, tangents, water mask,
\* and the allocation of the render data
ResolveAttributes ==
  /\ pc = "attributes"
  /\ LET material == MaterialOf(model, primitive)
         water == applyWaterMask(model, primitive)
         badNormals == HasInvalidAttribute(model, primitive, "NORMAL")
         badTangents == HasInvalidAttribute(model, primitive, "TANGENT")
         log1 == IF badNormals
                 THEN Append(log, "Invalid normal buffer")
                 ELSE log
     IN /\ hasNormals' = HasValidAttribute(model, primitive, "NORMAL")
        /\ hasTangents' = HasValidAttribute(model, primitive, "TANGENT")
        /\ needsTangents' = NeedsTangents(HasNormalMap(model, material),
                                          options.alwaysIncludeTangents, water)
        /\ log' = IF badTangents THEN Append(log1, "Invalid tangent buffer") ELSE log1
        /\ primitiveResult' = [primitiveResult EXCEPT
                                 !.onlyWater = water.onlyWater,
                                 !.onlyLand = water.onlyLand,
                                 !.waterMaskTexture = water.waterMaskTexture]
  /\ RenderData' = [RenderData EXCEPT !.allocated = TRUE]
  /\ pc' = "bounds"
  /\ UNCHANGED <<inputs, walker, sizes, game, positionView, indicesView, duplicateVertices, indices,
                 StaticMeshBuildVertices, hasVertexColors, textureCoordinateMap>>

\* "compute AA bounding box"
ComputeBounds ==
  /\ pc = "bounds"
  /\ LET aaBox == BoundingBox(model.accessors[primitive.attributes["POSITION"] + 1],
                              positionView)
         center == GetCenterAndExtents(aaBox)
     IN RenderData' = [RenderData EXCEPT
                         !.aaBox = aaBox,
                         !.Bounds = [Origin2 |-> center.Origin2,
                                     BoxExtent2 |-> center.BoxExtent2,
                                     SphereRadius2Sq |-> 0]]
  /\ pc' = "indices"
  /\ UNCHANGED <<inputs, walker, sizes, game, log, positionView, indicesView, primitiveResult,
                 hasNormals, hasTangents, needsTangents, duplicateVertices,
                 indices, StaticMeshBuildVertices, hasVertexColors,
                 textureCoordinateMap>>

\* "copy TRIANGLE indices" / "copy TRIANGLE_STRIP indices".  A strip of
\* fewer than two indices asks SetNum for a negative size: the build stops
\* on the array's range check, or goes on with an empty array
CopyIndices ==
  /\ pc = "indices"
  /\ IF primitive.mode = "TRIANGLES"
     THEN /\ indices' = TriangleIndices(indicesView.data)
          /\ pc' = "positions"
     ELSE IF Len(indicesView.data) >= 2
     THEN /\ indices' = TriangleStripIndices(indicesView.data)
          /\ pc' = "positions"
     ELSE \/ /\ indices' = <<>>
             /\ pc' = "positions"
          \/ /\ pc' = "fault"
             /\ UNCHANGED indices
  /\ UNCHANGED <<inputs, walker, sizes, game, log, positionView, indicesView, primitiveResult,
                 hasNormals, hasTangents, needsTangents, duplicateVertices,
                 StaticMeshBuildVertices, hasVertexColors, textureCoordinateMap,
                 RenderData>>

\* the deduplication decision, and "copy duplicated positions" / "copy
\* positions".  positionView[vertexIndex] past the end of the accessor
\* throws: the build of the primitive ends there
CopyPositions ==
  /\ pc = "positions"
  /\ LET dup == DuplicateVertices(hasNormals, needsTangents, hasTangents)
         vertices == IF dup
                     THEN DuplicatedPositions(indices, positionView)
                     ELSE SharedPositions(positionView)
     IN /\ duplicateVertices' = dup
        /\ IF dup /\ ReadsPastEnd(dup, Len(indices), indices, positionView)
           THEN /\ pc' = "fault"
                /\ UNCHANGED <<StaticMeshBuildVertices, RenderData>>
           ELSE /\ StaticMeshBuildVertices' = vertices
                /\ RenderData' =
                     [RenderData EXCEPT
                        !.Bounds.SphereRadius2Sq =
                          SphereRadius2Sq(vertices, RenderData.Bounds.Origin2,
                                          Len(vertices))]
                /\ pc' = "colors"
  /\ UNCHANGED <<inputs, walker, sizes, game, log, positionView, indicesView, primitiveResult,
                 hasNormals, hasTangents, needsTangents, indices,
                 hasVertexColors, textureCoordinateMap>>

\* "copy colors"
CopyColors ==
  /\ pc = "colors"
  /\ IF "COLOR_0" \in DOMAIN primitive.attributes
     THEN LET view == AccessorView(model, primitive.attributes["COLOR_0"])
          IN \E cast \in CastsOf(view) :
               LET visit == ColorVisit(view, duplicateVertices,
                                       StaticMeshBuildVertices, indices, cast)
               IN /\ hasVertexColors' = visit.success
                  /\ StaticMeshBuildVertices' = visit.vertices
                  /\ RenderData' =
                       [RenderData EXCEPT !.bHasColorVertexData = visit.success]
     ELSE /\ hasVertexColors' = FALSE
          /\ RenderData' = [RenderData EXCEPT !.bHasColorVertexData = FALSE]
          /\ UNCHANGED StaticMeshBuildVertices
  /\ pc' = "textureCoordinates"
  /\ UNCHANGED <<inputs, walker, sizes, game, log, positionView, indicesView, primitiveResult,
                 hasNormals, hasTangents, needsTangents, duplicateVertices,
                 indices, textureCoordinateMap>>

\* the textures of the material in the order loadPrimitive visits them
MaterialTextures(material) ==
  <<material.baseColorTexture, material.metallicRoughnessTexture,
    material.normalTexture, material.occlusionTexture, material.emissiveTexture>>

\* the first n calls of the "updateTextureCoordinates" block: the five
\* material textures, then the overlay slots in ascending order
RECURSIVE ConsolidateSlots(_, _, _, _, _, _)
ConsolidateSlots(m, prim, dup, vertices, idx, n) ==
  IF n = 0
  THEN [map |-> EmptyMap, vertices |-> vertices, returned |-> <<>>]
  ELSE LET before == ConsolidateSlots(m, prim, dup, vertices, idx, n - 1)
           call ==
             IF n <= Len(TextureSlotNames)
             THEN updateTextureCoordinatesOfTexture(
                    m, prim, dup, before.vertices, idx,
                    MaterialTextures(MaterialOf(m, prim))[n], before.map)
             ELSE IF OverlayName(n - Len(TextureSlotNames) - 1) \in DOMAIN prim.attributes
             THEN updateTextureCoordinates(
                    m, prim, dup, before.vertices, idx,
                    OverlayName(n - Len(TextureSlotNames) - 1), before.map)
             ELSE [ret |-> 0, map |-> before.map, vertices |-> before.vertices,
                   found |-> FALSE, accessor |-> 0]
       IN [map |-> call.map, vertices |-> call.vertices,
           returned |-> Append(before.returned, call.ret)]

\* "loadTextures" and "updateTextureCoordinates"
UpdateTextureCoordinates ==
  /\ pc = "textureCoordinates"
  /\ LET material == MaterialOf(model, primitive)
         slots == Len(TextureSlotNames)
         done == ConsolidateSlots(model, primitive, duplicateVertices,
                                  StaticMeshBuildVertices, indices,
                                  slots + OverlaySlotCount)
     IN /\ textureCoordinateMap' = done.map
        /\ StaticMeshBuildVertices' = done.vertices
        /\ primitiveResult' =
             [primitiveResult EXCEPT
                !.textures =
                  [n \in 1..slots |-> loadTexture(model, MaterialTextures(material)[n])],
                !.textureCoordinateParameters =
                  [name \in {TextureSlotNames[n] : n \in 1..slots} |->
                    done.returned[CHOOSE n \in 1..slots : TextureSlotNames[n] = name]],
                !.overlayTextureCoordinateIDToUVIndex =
                  [i \in 1..OverlaySlotCount |-> done.returned[slots + i]]]
  /\ pc' = "normals"
  /\ UNCHANGED <<inputs, walker, sizes, game, log, positionView, indicesView, hasNormals, hasTangents,
                 needsTangents, duplicateVertices, indices, hasVertexColors,
                 RenderData>>

\* the normals a read past the end of the vertex array can produce
StrayNormals == {Zero3, <<0, 0, 1>>}

\* "copy normals for duplicated vertices", "copy normals" and "compute flat
\* normals".  normalAccessor[i] past the end of the accessor throws.
\* computeFlatNormals reads vertices[i + 1] and vertices[i + 2] past the
\* end of the array when the index count is no multiple of 3: the build
\* stops on the array's range check, or goes on with whatever it read
CopyNormals ==
  /\ pc = "normals"
  /\ IF hasNormals
     THEN LET normalAccessor == AccessorView(model, primitive.attributes["NORMAL"])
          IN IF ReadsPastEnd(duplicateVertices, Len(StaticMeshBuildVertices),
                             indices, normalAccessor)
             THEN /\ pc' = "fault"
                  /\ UNCHANGED StaticMeshBuildVertices
             ELSE /\ StaticMeshBuildVertices' =
                       CopyNormalsFrom(duplicateVertices, StaticMeshBuildVertices,
                                       indices, normalAccessor)
                  /\ pc' = "tangents"
     ELSE IF Len(indices) % 3 = 0
     THEN /\ StaticMeshBuildVertices' =
               computeFlatNormals(indices, StaticMeshBuildVertices, Zero3)
          /\ pc' = "tangents"
     ELSE \/ /\ pc' = "fault"
             /\ UNCHANGED StaticMeshBuildVertices
          \/ \E stray \in StrayNormals :
               /\ StaticMeshBuildVertices' =
                    computeFlatNormals(indices, StaticMeshBuildVertices, stray)
               /\ pc' = "tangents"
  /\ UNCHANGED <<inputs, walker, sizes, game, log, positionView, indicesView, primitiveResult,
                 hasNormals, hasTangents, needsTangents, duplicateVertices,
                 indices, hasVertexColors, textureCoordinateMap, RenderData>>

\* "copy tangents for duplicated vertices", "copy tangents" and "compute
\* tangents".  tangentAccessor[i] past the end of the accessor throws
CopyTangents ==
  /\ pc = "tangents"
  /\ IF hasTangents
     THEN LET tangentAccessor == AccessorView(model, primitive.attributes["TANGENT"])
          IN IF ReadsPastEnd(duplicateVertices, Len(StaticMeshBuildVertices),
                             indices, tangentAccessor)
             THEN /\ pc' = "fault"
                  /\ UNCHANGED StaticMeshBuildVertices
             ELSE /\ StaticMeshBuildVertices' =
                       CopyTangentsFrom(duplicateVertices, StaticMeshBuildVertices,
                                        indices, tangentAccessor)
                  /\ pc' = "buffers"
     ELSE IF needsTangents
     THEN /\ StaticMeshBuildVertices' = computeTangentSpace(StaticMeshBuildVertices)
          /\ pc' = "buffers"
     ELSE /\ pc' = "buffers"
          /\ UNCHANGED StaticMeshBuildVertices
  /\ UNCHANGED <<inputs, walker, sizes, game, log, positionView, indicesView, primitiveResult,
                 hasNormals, hasTangents, needsTangents, duplicateVertices,
                 indices, hasVertexColors, textureCoordinateMap, RenderData>>

\* "init buffers", and the mesh section
InitBuffers ==
  /\ pc = "buffers"
  /\ RenderData' =
       [RenderData EXCEPT
          !.PositionVertexBuffer = Len(StaticMeshBuildVertices),
          !.ColorVertexBuffer = hasVertexColors,
          !.NumTexCoords = NumTexCoords(textureCoordinateMap),
          !.Section = [NumTriangles |-> Len(indices) \div 3,
                       MaxVertexIndex |-> Len(StaticMeshBuildVertices) - 1]]
  /\ pc' = "winding"
  /\ UNCHANGED <<inputs, walker, sizes, game, log, positionView, indicesView, primitiveResult,
                 hasNormals, hasTangents, needsTangents, duplicateVertices,
                 indices, StaticMeshBuildVertices, hasVertexColors,
                 textureCoordinateMap>>

\* a faulty build: the index buffer is handed on as it was copied
ReverseWindingLeftOut ==
  /\ pc = "winding"
  /\ pc' = "setIndices"
  /\ UNCHANGED <<inputs, walker, sizes, game, log, positionView, indicesView, primitiveResult,
                 hasNormals, hasTangents, needsTangents, duplicateVertices, indices,
                 StaticMeshBuildVertices, hasVertexColors, textureCoordinateMap,
                 RenderData>>

\* "reverse winding order of duplicated vertices" / "reverse winding order"
ReverseWinding ==
  /\ pc = "winding"
  /\ indices' = IF duplicateVertices
                THEN ReverseWindingDuplicated(indices)
                ELSE ReverseWindingShared(indices)
  /\ pc' = "setIndices"
  /\ UNCHANGED <<inputs, walker, sizes, game, log, positionView, indicesView, primitiveResult,
                 hasNormals, hasTangents, needsTangents, duplicateVertices,
                 StaticMeshBuildVertices, hasVertexColors, textureCoordinateMap,
                 RenderData>>

\* "SetIndices", and the fields of the primitive result
SetIndices ==
  /\ pc = "setIndices"
  /\ RenderData' =
       [RenderData EXCEPT
          !.IndexBuffer = [indices |-> indices,
                           stride |-> IndexStride(Len(StaticMeshBuildVertices))]]
  /\ primitiveResult' = [primitiveResult EXCEPT
                           !.RenderData = TRUE,
                           !.pCollisionMesh = NoCollisionMesh]
  /\ pc' = "collision"
  /\ UNCHANGED <<inputs, walker, sizes, game, log, positionView, indicesView, hasNormals, hasTangents,
                 needsTangents, duplicateVertices, indices,
                 StaticMeshBuildVertices, hasVertexColors, textureCoordinateMap>>

\* the physics interfaces the plugin is compiled for; PhysX runs with or
\* without a cooking interface
PhysicsInterfaces == {"PhysX", "PhysXNoCooking", "Chaos"}

\* the interface is fixed by the build of the plugin and by pPhysXCooking
\* of the model options; options that leave it open stand for any of them
PhysicsOf(opts) ==
  IF "physics" \in DOMAIN opts THEN {opts.physics} ELSE PhysicsInterfaces

\* the collision mesh of a primitive with vertices and indices
CollisionMesh(physics, vertexData, idx) ==
  CASE physics = "PhysX" -> BuildPhysXTriangleMeshes(vertexData, idx)
    [] physics = "Chaos" -> BuildChaosTriangleMeshes(vertexData, idx)
    [] OTHER -> NoCollisionMesh

\* "PhysX cook" / "Chaos cook"
BuildCollision ==
  /\ pc = "collision"
  /\ IF Len(StaticMeshBuildVertices) # 0 /\ Len(indices) # 0
     THEN \E physics \in PhysicsOf(options) :
            primitiveResult' =
              [primitiveResult EXCEPT
                 !.pCollisionMesh =
                   CollisionMesh(physics, StaticMeshBuildVertices, indices)]
     ELSE UNCHANGED primitiveResult
  /\ pc' = "done"
  /\ UNCHANGED <<inputs, walker, sizes, game, log, positionView, indicesView, hasNormals, hasTangents,
                 needsTangents, duplicateVertices, indices,
                 StaticMeshBuildVertices, hasVertexColors, textureCoordinateMap,
                 RenderData>>

Next ==
  \/ loadPrimitive
  \/ ValidatePrimitive
  \/ ResolveAttributes
  \/ ComputeBounds
  \/ CopyIndices
  \/ CopyPositions
  \/ CopyColors
  \/ UpdateTextureCoordinates
  \/ CopyNormals
  \/ CopyTangents
  \/ InitBuffers
  \/ ReverseWinding
  \/ SetIndices
  \/ BuildCollision

(* ------------------------- the inputs of a build ----------------------- *)

SeqsUpTo(S, n) == UNION {[1..k -> S] : k \in 0..n}

\* a map from attribute names to accessor ids, from a set of <<name, id>>
Attributes(pairs) ==
  [name \in {p[1] : p \in pairs} |-> (CHOOSE p \in pairs : p[1] = name)[2]]

NoExtras == [x \in {} |-> FALSE]

MeshPrimitive(mode, attributes, indicesID, materialID, extras) ==
  [mode |-> mode, attributes |-> attributes, indices |-> indicesID,
   material |-> materialID, extras |-> extras]

\* the accessors of the assets built below, by id: 0 positions, 1 indices,
\* 2 normals, 3 tangents, 4 and 5 texture coordinates, 6 colors
AccessorOrder ==
  <<"positions", "indices", "normals", "tangents", "uvFirst", "uvSecond", "colors">>

AccessorIDOf(name) == (CHOOSE i \in 1..Len(AccessorOrder) : AccessorOrder[i] = name) - 1

PositionID == AccessorIDOf("positions")
IndicesID == AccessorIDOf("indices")
NormalID == AccessorIDOf("normals")
TangentID == AccessorIDOf("tangents")
UVFirstID == AccessorIDOf("uvFirst")
UVSecondID == AccessorIDOf("uvSecond")
ColorID == AccessorIDOf("colors")

\* an accessor id past the end of the asset's accessors
MissingID == Len(AccessorOrder)

Asset(positions, indexAccessor, normals, tangents, uvFirst, uvSecond, colors, materials, textures, images) ==
  [accessors |-> <<positions, indexAccessor, normals, tangents, uvFirst,
                   uvSecond, colors>>,
   materials |-> materials, textures |-> textures, images |-> images]

PositionAccessor(status, data, min, max) ==
  Accessor("FLOAT", "VEC3", status, data, min, max)

IndexAccessor(componentType, status, data) ==
  Accessor(componentType, "SCALAR", status, data, <<>>, <<>>)

NormalAccessor(status, count) ==
  Accessor("FLOAT", "VEC3", status, [i \in 1..count |-> <<0, 0, 1>>], <<>>, <<>>)

TangentAccessor(status, count) ==
  Accessor("FLOAT", "VEC4", status, [i \in 1..count |-> <<1, 0, 0, 1>>], <<>>, <<>>)

\* element i of the texture coordinates of accessor id is (id, i)
UVAccessor(id, status, count) ==
  Accessor("FLOAT", "VEC2", status, [i \in 1..count |-> <<id, i>>], <<>>, <<>>)

\* an accessor no attribute of the primitive refers to
UnusedAccessor == Accessor("FLOAT", "SCALAR", ViewInvalid, <<>>, <<>>, <<>>)

ColorAccessor(componentType, type, status, data) ==
  Accessor(componentType, type, status, data, <<>>, <<>>)

\* positions on a parabola in the plane z = 0: pairwise distinct, no three
\* on a line
ParabolaPositions(count) == [i \in 1..count |-> <<i - 1, (i - 1) * (i - 1), 0>>]

ModelOptions(alwaysIncludeTangents) == [alwaysIncludeTangents |-> alwaysIncludeTangents]

AttributeStates == {"absent", "invalid", "valid"}

StatusOf(state) == IF state = "valid" THEN ViewValid ELSE ViewInvalid

AttributePair(name, id, state) == IF state = "absent" THEN {} ELSE {<<name, id>>}

(* geometry: topology, index data, vertex counts, index component types *)

IndexValues == {0, 1, 2}

GeometryAsset(positionState, count, componentType, indexState, indexData) ==
  Asset(PositionAccessor(StatusOf(positionState), ParabolaPositions(count), <<>>, <<>>),
        IndexAccessor(componentType, StatusOf(indexState), indexData),
        NormalAccessor(ViewValid, count),
        UnusedAccessor, UnusedAccessor, UnusedAccessor, UnusedAccessor,
        <<>>, <<>>, 0)

InitGeometryData ==
  \E mode \in {"TRIANGLES", "TRIANGLE_STRIP"}, count \in 0..MaxVerts,
     normalState \in {"absent", "valid"}, indexed \in BOOLEAN :
    \E indexData \in IF indexed THEN SeqsUpTo(IndexValues, MaxIndices) ELSE {<<>>} :
      InitBuild(
        GeometryAsset("valid", count, "UNSIGNED_INT", "valid", indexData),
        MeshPrimitive(
          mode,
          Attributes({<<"POSITION", PositionID>>}
                       \cup AttributePair("NORMAL", NormalID, normalState)),
          IF indexed THEN IndicesID ELSE -1, -1, NoExtras),
        ModelOptions(FALSE))

InitGeometryKinds ==
  \E mode \in {"TRIANGLES", "TRIANGLE_STRIP", "POINTS"},
     positionState \in {"absent", "missing", "invalid", "valid"},
     componentType \in IndexComponentTypes \cup {"FLOAT"},
     indexState \in {"invalid", "valid"}, indexed \in BOOLEAN :
    InitBuild(
      GeometryAsset(positionState, MaxVerts, componentType, indexState, <<0, 1, 2>>),
      MeshPrimitive(
        mode,
        Attributes(CASE positionState = "absent" -> {}
                     [] positionState = "missing" -> {<<"POSITION", MissingID>>}
                     [] OTHER -> {<<"POSITION", PositionID>>}),
        IF indexed THEN IndicesID ELSE MissingID, -1, NoExtras),
      ModelOptions(FALSE))

Init == InitGeometryData \/ InitGeometryKinds

Spec == Init /\ [][Next]_vars

(* texture coordinates: material textures, attribute names, accessors *)

\* a material texture slot: no texture, or a texture on TEXCOORD_0 or _1
TextureChoices == {NoTexture, TextureInfo(0, 0), TextureInfo(0, 1)}

\* the triangle the texture-coordinate builds are run on
UVVertexCount == MaxVerts

InitTextureCoordinates ==
  \E textures \in [1..5 -> TextureChoices],
     first \in {"absent", "valid"}, second \in {"absent", "first", "second"},
     overlays \in [1..OverlaySlotCount -> {"absent", "first", "second"}],
     firstState \in {"invalid", "valid"}, secondState \in {"invalid", "valid"} :
    LET id(choice) == IF choice = "second" THEN UVSecondID ELSE UVFirstID
    IN InitBuild(
         Asset(PositionAccessor(ViewValid, ParabolaPositions(UVVertexCount), <<>>, <<>>),
               UnusedAccessor,
               NormalAccessor(ViewValid, UVVertexCount),
               UnusedAccessor,
               UVAccessor(UVFirstID, StatusOf(firstState), UVVertexCount),
               UVAccessor(UVSecondID, StatusOf(secondState), UVVertexCount - 1),
               UnusedAccessor,
               <<Material(textures[1], textures[2], textures[3], textures[4],
                          textures[5])>>,
               <<[source |-> 0]>>, 1),
         MeshPrimitive(
           "TRIANGLES",
           Attributes({<<"POSITION", PositionID>>, <<"NORMAL", NormalID>>}
                        \cup (IF first = "absent" THEN {}
                              ELSE {<<"TEXCOORD_0", UVFirstID>>})
                        \cup (IF second = "absent" THEN {}
                              ELSE {<<"TEXCOORD_1", id(second)>>})
                        \cup {<<OverlayName(i - 1), id(overlays[i])>> :
                                i \in {j \in 1..OverlaySlotCount :
                                         overlays[j] # "absent"}}),
           -1, 0, NoExtras),
         ModelOptions(FALSE))

SpecUV == InitTextureCoordinates /\ [][Next]_vars

(* bounding volume: position values and declared bounds *)

PositionValues == {<<0, 0, 0>>, <<1, 2, -1>>, <<-2, 1, 3>>}

DeclaredMins == {<<>>, <<-1, -1, -1>>, <<0, 0>>}

DeclaredMaxs == {<<>>, <<1, 1, 1>>, <<1, 1>>}

InitBounds ==
  \E positions \in SeqsUpTo(PositionValues, MaxVerts),
     min \in DeclaredMins, max \in DeclaredMaxs,
     normalState \in {"absent", "valid"} :
    InitBuild(
      Asset(PositionAccessor(ViewValid, positions, min, max),
            UnusedAccessor,
            NormalAccessor(ViewValid, Len(positions)),
            UnusedAccessor, UnusedAccessor, UnusedAccessor, UnusedAccessor,
            <<>>, <<>>, 0),
      MeshPrimitive(
        "TRIANGLES",
        Attributes({<<"POSITION", PositionID>>}
                     \cup AttributePair("NORMAL", NormalID, normalState)),
        -1, -1, NoExtras),
      ModelOptions(FALSE))

SpecBounds == InitBounds /\ [][Next]_vars

(* deduplication: normals, tangents, normal map, options, water mask *)

\* no normal texture; a texture id that is no texture; a texture whose
\* source is no image; a texture with an image
NormalTextureChoices == {NoTexture, TextureInfo(2, 0), TextureInfo(1, 0), TextureInfo(0, 0)}

ExtrasChoices ==
  {NoExtras,
   [OnlyWater |-> TRUE, OnlyLand |-> FALSE],
   [OnlyWater |-> FALSE, OnlyLand |-> TRUE],
   [OnlyWater |-> FALSE, OnlyLand |-> FALSE],
   [OnlyWater |-> FALSE, OnlyLand |-> FALSE, WaterMaskTex |-> 0],
   [OnlyWater |-> FALSE, OnlyLand |-> FALSE, WaterMaskTex |-> 1],
   [OnlyWater |-> FALSE, OnlyLand |-> FALSE, WaterMaskTex |-> 2]}

InitDeduplication ==
  \E mode \in {"TRIANGLES", "TRIANGLE_STRIP"}, count \in 0..MaxVerts,
     normalState \in AttributeStates, tangentState \in AttributeStates,
     normalTexture \in NormalTextureChoices, extras \in ExtrasChoices,
     alwaysIncludeTangents \in BOOLEAN :
    InitBuild(
      Asset(PositionAccessor(ViewValid, ParabolaPositions(count), <<>>, <<>>),
            UnusedAccessor,
            NormalAccessor(StatusOf(normalState), count),
            TangentAccessor(StatusOf(tangentState), count),
            UnusedAccessor, UnusedAccessor, UnusedAccessor,
            <<Material(NoTexture, NoTexture, normalTexture, NoTexture, NoTexture)>>,
            <<[source |-> 0], [source |-> 1]>>, 1),
      MeshPrimitive(
        mode,
        Attributes({<<"POSITION", PositionID>>}
                     \cup AttributePair("NORMAL", NormalID, normalState)
                     \cup AttributePair("TANGENT", TangentID, tangentState)),
        -1, 0, extras),
      ModelOptions(alwaysIncludeTangents))

SpecDedup == InitDeduplication /\ [][Next]_vars

(* one triangle without indices: its corners, the normal map, the option *)

CornerValues == {<<0, 0, 0>>, <<1, 0, 0>>, <<0, 1, 0>>, <<1, 2, -1>>}

InitFlatTriangle ==
  \E positions \in [1..3 -> CornerValues], material \in {-1, 0},
     alwaysIncludeTangents \in BOOLEAN :
    InitBuild(
      Asset(PositionAccessor(ViewValid, positions, <<>>, <<>>),
            UnusedAccessor, UnusedAccessor, UnusedAccessor, UnusedAccessor,
            UnusedAccessor, UnusedAccessor,
            <<Material(NoTexture, NoTexture, TextureInfo(0, 0), NoTexture, NoTexture)>>,
            <<[source |-> 0]>>, 1),
      MeshPrimitive("TRIANGLES", Attributes({<<"POSITION", PositionID>>}),
                    -1, material, NoExtras),
      ModelOptions(alwaysIncludeTangents))

SpecFlat == InitFlatTriangle /\ [][Next]_vars

(* vertex colors: component types, element shapes, values, counts *)

\* color elements by component type; a float channel is in thousandths
ColorSamples ==
  {<<"UNSIGNED_BYTE", <<200, 100, 50, 255>>>>, <<"UNSIGNED_BYTE", <<0, 255, 1, 0>>>>,
   <<"UNSIGNED_SHORT", <<65535, 256, 255, 51400>>>>,
   <<"UNSIGNED_SHORT", <<0, 511, 32768, 65535>>>>,
   <<"FLOAT", <<1000, 500, 0, 1000>>>>, <<"FLOAT", <<200, 999, 4, 0>>>>,
   <<"FLOAT", <<2000, -500, 1004, 300>>>>,
   <<"UNSIGNED_INT", <<1, 2, 3, 4>>>>}

ComponentCount(type) ==
  CASE type = "VEC2" -> 2 [] type = "VEC3" -> 3 [] OTHER -> 4

InitColors ==
  \E count \in 0..MaxVerts, colorCount \in 0..MaxVerts,
     normalState \in {"absent", "valid"}, colorState \in AttributeStates,
     sample \in ColorSamples, type \in {"VEC2", "VEC3", "VEC4"} :
    InitBuild(
      Asset(PositionAccessor(ViewValid, ParabolaPositions(count), <<>>, <<>>),
            UnusedAccessor,
            NormalAccessor(ViewValid, count),
            UnusedAccessor, UnusedAccessor, UnusedAccessor,
            ColorAccessor(sample[1], type, StatusOf(colorState),
                          [i \in 1..colorCount |->
                             SubSeq(sample[2], 1, ComponentCount(type))]),
            <<>>, <<>>, 0),
      MeshPrimitive(
        "TRIANGLES",
        Attributes({<<"POSITION", PositionID>>}
                     \cup AttributePair("NORMAL", NormalID, normalState)
                     \cup AttributePair("COLOR_0", ColorID, colorState)),
        -1, -1, NoExtras),
      ModelOptions(FALSE))

SpecColor == InitColors /\ [][Next]_vars

(* ----------------------------- scene walk ------------------------------ *)

\* the locals of one primitive build
buildLocals ==
  <<positionView, indicesView, primitiveResult, hasNormals, hasTangents,
    needsTangents, duplicateVertices, indices, StaticMeshBuildVertices,
    hasVertexColors, textureCoordinateMap, RenderData>>

\* CesiumGeometry::Axis
Axis == [X |-> 0, Y |-> 1, Z |-> 2]

\* a transform is the sequence of the factors multiplied into it; the
\* identity is left out
\* Cesium3DTilesSelection::GltfContent::applyRtcCenter
applyRtcCenter(m, transform) ==
  IF "RTC_CENTER" \in DOMAIN m.extras THEN Append(transform, "RTC_CENTER") ELSE transform

\* JsonValue::getSafeNumberOrDefault(1), cast to int
UpAxisValue(m) ==
  IF m.extras["gltfUpAxis"].isNumber THEN m.extras["gltfUpAxis"].number ELSE Axis.Y

\* a faulty correction: the hint of the model is not read
UpAxisFactorWithoutHint(m) == <<"Y_UP_TO_Z_UP">>

\* applyGltfUpAxisTransform: the factor multiplied into the root transform
UpAxisFactor(m) ==
  IF "gltfUpAxis" \notin DOMAIN m.extras THEN <<"Y_UP_TO_Z_UP">>
  ELSE IF UpAxisValue(m) = Axis.X THEN <<"X_UP_TO_Z_UP">>
  ELSE IF UpAxisValue(m) = Axis.Y THEN <<"Y_UP_TO_Z_UP">>
  ELSE <<>>

\* applyGltfUpAxisTransform: is the hinted value none of the axes
UnknownUpAxis(m) ==
  /\ "gltfUpAxis" \in DOMAIN m.extras
  /\ UpAxisValue(m) \notin {Axis.X, Axis.Y, Axis.Z}

applyGltfUpAxisTransform(m, transform) == transform \o UpAxisFactor(m)

\* a faulty choice: the default scene is not looked at
SelectRootsOfFirstScene(m) ==
  IF Len(m.scenes) > 0
  THEN [kind |-> "nodes", ids |-> m.scenes[1].nodes, next |-> 1]
  ELSE IF Len(m.nodes) > 0
  THEN [kind |-> "nodes", ids |-> <<0>>, next |-> 1]
  ELSE IF Len(m.meshes) > 0
  THEN [kind |-> "meshes", ids |-> [i \in 1..Len(m.meshes) |-> i - 1], next |-> 1]
  ELSE NoRoots

\* the roots loadModelAnyThreadPart iterates
SelectRoots(m) ==
  IF m.scene >= 0 /\ m.scene < Len(m.scenes)
  THEN [kind |-> "nodes", ids |-> m.scenes[m.scene + 1].nodes, next |-> 1]
  ELSE IF Len(m.scenes) > 0
  THEN [kind |-> "nodes", ids |-> m.scenes[1].nodes, next |-> 1]
  ELSE IF Len(m.nodes) > 0
  THEN [kind |-> "nodes", ids |-> <<0>>, next |-> 1]
  ELSE IF Len(m.meshes) > 0
  THEN [kind |-> "meshes", ids |-> [i \in 1..Len(m.meshes) |-> i - 1], next |-> 1]
  ELSE NoRoots

\* std::optional<LoadMeshResult>, empty and as loadMesh resets it
NoMeshResult == [loaded |-> FALSE, primitiveResults |-> <<>>]

LoadMeshResult == [loaded |-> TRUE, primitiveResults |-> <<>>]

\* a LoadPrimitiveResult as emplace_back() leaves it in primitiveResults
EmptyPrimitiveResult == [built |-> FALSE]

\* the LoadPrimitiveResult of a finished build
BuiltPrimitiveResult(prim, transform, renderData, result) ==
  [built |-> TRUE, pMeshPrimitive |-> prim, transform |-> transform,
   RenderData |-> renderData, result |-> result]

\* loadNode: the node's transform
NodeTransform(transform, node, nodeId) ==
  IF node.matrix = "general"
  THEN Append(transform, <<"matrix", nodeId>>)
  ELSE Append(transform, <<"translation rotation scale", nodeId>>)

\* what an out-of-range element of model.nodes may be read as
GarbageNode == [mesh |-> -1, children |-> <<>>, matrix |-> "absent"]

\* a faulty call: the children are taken last to first
EnterNodeChildrenReversed(node, nodeId, transform) ==
  LET hasMesh == InRange(node.mesh, Len(model.meshes))
      count == Len(node.children)
      frame == [node |-> nodeId, mesh |-> IF hasMesh THEN node.mesh ELSE -1,
                children |-> [i \in 1..count |-> node.children[count + 1 - i]],
                transform |-> NodeTransform(transform, node, nodeId),
                result |-> Len(nodeResults) + 1, primitive |-> 1, child |-> 1]
  IN /\ nodeResults' =
          Append(nodeResults,
                 [node |-> nodeId,
                  meshResult |-> IF hasMesh THEN LoadMeshResult ELSE NoMeshResult])
     /\ callStack' = Append(callStack, frame)
     /\ walkPc' = IF hasMesh THEN "loadMesh" ELSE "children"

\* the call loadNode(loadNodeResults, transform, {node}), up to its loops
EnterNode(node, nodeId, transform) ==
  LET hasMesh == InRange(node.mesh, Len(model.meshes))
      frame == [node |-> nodeId, mesh |-> IF hasMesh THEN node.mesh ELSE -1,
                children |-> node.children,
                transform |-> NodeTransform(transform, node, nodeId),
                result |-> Len(nodeResults) + 1, primitive |-> 1, child |-> 1]
  IN /\ nodeResults' =
          Append(nodeResults,
                 [node |-> nodeId,
                  meshResult |-> IF hasMesh THEN LoadMeshResult ELSE NoMeshResult])
     /\ callStack' = Append(callStack, frame)
     /\ walkPc' = IF hasMesh THEN "loadMesh" ELSE "children"

TopFrame == callStack[Len(callStack)]

PopFrame == SubSeq(callStack, 1, Len(callStack) - 1)

\* loadModelAnyThreadPart: the root transform and the choice of the roots
loadModelAnyThreadPart ==
  /\ walkPc = "loadModel"
  /\ rootTransform' = applyGltfUpAxisTransform(model, applyRtcCenter(model, rootTransform))
  /\ log' = IF UnknownUpAxis(model) THEN Append(log, "Unknown gltfUpAxis value") ELSE log
  /\ roots' = SelectRoots(model)
  /\ walkPc' = "roots"
  /\ UNCHANGED <<sizes, game, inputs, pc, buildLocals, callStack, nodeResults>>

\* loadModelAnyThreadPart: one turn of the loop over the roots.  A root
\* node id is not checked: model.nodes[nodeId] out of range is undefined
\* behaviour, here a crash or the read of some node
VisitRoot ==
  /\ walkPc = "roots"
  /\ IF roots.next > Len(roots.ids)
     THEN /\ walkPc' = "returned"
          /\ UNCHANGED <<roots, callStack, nodeResults>>
     ELSE LET id == roots.ids[roots.next]
          IN /\ roots' = [roots EXCEPT !.next = @ + 1]
             /\ IF roots.kind = "meshes"
                THEN /\ nodeResults' =
                          Append(nodeResults,
                                 [node |-> -1, meshResult |-> LoadMeshResult])
                     /\ callStack' =
                          <<[node |-> -1, mesh |-> id, children |-> <<>>,
                             transform |-> rootTransform,
                             result |-> Len(nodeResults) + 1,
                             primitive |-> 1, child |-> 1]>>
                     /\ walkPc' = "loadMesh"
                ELSE IF InRange(id, Len(model.nodes))
                THEN EnterNode(model.nodes[id + 1], id, rootTransform)
                ELSE \/ /\ walkPc' = "crashed"
                        /\ UNCHANGED <<callStack, nodeResults>>
                     \/ EnterNode(GarbageNode, id, rootTransform)
  /\ UNCHANGED <<sizes, game, inputs, pc, log, buildLocals, rootTransform>>

\* loadMesh: one turn of the loop over the primitives, up to the call of
\* loadPrimitive
LoadMeshStep ==
  /\ walkPc = "loadMesh"
  /\ LET frame == TopFrame
         primitives == model.meshes[frame.mesh + 1].primitives
     IN IF frame.primitive > Len(primitives)
        THEN /\ IF frame.node = -1
                THEN callStack' = PopFrame /\ walkPc' = "roots"
                ELSE UNCHANGED callStack /\ walkPc' = "children"
             /\ UNCHANGED <<primitive, pc, buildLocals, nodeResults>>
        ELSE /\ nodeResults' =
                  [nodeResults EXCEPT
                     ![frame.result].meshResult.primitiveResults =
                       Append(@, EmptyPrimitiveResult)]
             /\ primitive' = primitives[frame.primitive]
             /\ pc' = "loadPrimitive"
             /\ positionView' = NoView
             /\ indicesView' = NoView
             /\ primitiveResult' = NewPrimitiveResult
             /\ hasNormals' = FALSE
             /\ hasTangents' = FALSE
             /\ needsTangents' = FALSE
             /\ duplicateVertices' = FALSE
             /\ indices' = <<>>
             /\ StaticMeshBuildVertices' = <<>>
             /\ hasVertexColors' = FALSE
             /\ textureCoordinateMap' = EmptyMap
             /\ RenderData' = NoRenderData
             /\ walkPc' = "primitive"
             /\ UNCHANGED callStack
  /\ UNCHANGED <<sizes, game, model, options, log, rootTransform, roots>>

\* a faulty return: a skipped primitive ends the loop over the primitives
PrimitiveReturnsOrEndsMesh ==
  /\ walkPc = "primitive"
  /\ pc \in {"done", "skipped"}
  /\ LET frame == TopFrame
     IN /\ nodeResults' =
             IF pc = "done"
             THEN [nodeResults EXCEPT
                     ![frame.result].meshResult.primitiveResults[frame.primitive] =
                       BuiltPrimitiveResult(primitive, frame.transform, RenderData,
                                            primitiveResult)]
             ELSE nodeResults
        /\ callStack' =
             [callStack EXCEPT
                ![Len(callStack)].primitive =
                  IF pc = "done" THEN @ + 1
                  ELSE Len(model.meshes[frame.mesh + 1].primitives) + 1]
  /\ pc' = "idle"
  /\ walkPc' = "loadMesh"
  /\ UNCHANGED <<sizes, game, inputs, log, buildLocals, rootTransform, roots>>

\* loadPrimitive returns to loadMesh: the result it was given is filled if
\* the build reached its end
PrimitiveReturns ==
  /\ walkPc = "primitive"
  /\ pc \in {"done", "skipped"}
  /\ LET frame == TopFrame
     IN /\ nodeResults' =
             IF pc = "done"
             THEN [nodeResults EXCEPT
                     ![frame.result].meshResult.primitiveResults[frame.primitive] =
                       BuiltPrimitiveResult(primitive, frame.transform, RenderData,
                                            primitiveResult)]
             ELSE nodeResults
        /\ callStack' = [callStack EXCEPT ![Len(callStack)].primitive = @ + 1]
  /\ pc' = "idle"
  /\ walkPc' = "loadMesh"
  /\ UNCHANGED <<sizes, game, inputs, log, buildLocals, rootTransform, roots>>

\* an exception of the build leaves loadModelAnyThreadPart: nothing in the
\* walk catches it
PrimitiveThrows ==
  /\ walkPc = "primitive"
  /\ pc = "fault"
  /\ walkPc' = "thrown"
  /\ UNCHANGED <<sizes, game, inputs, pc, log, buildLocals, rootTransform, roots, callStack,
                 nodeResults>>

\* the node ids of the loadNode calls in progress
Ancestors == {callStack[i].node : i \in 1..Len(callStack)}

\* loadNode: one turn of the loop over the children.  The call for a child
\* that is one of the nodes being visited repeats itself without end
VisitChild ==
  /\ walkPc = "children"
  /\ LET frame == TopFrame
     IN IF frame.child > Len(frame.children)
        THEN /\ callStack' = PopFrame
             /\ walkPc' = IF Len(callStack) = 1 THEN "roots" ELSE "children"
             /\ UNCHANGED nodeResults
        ELSE LET childNodeId == frame.children[frame.child]
                 advanced == [callStack EXCEPT ![Len(callStack)].child = @ + 1]
             IN IF ~InRange(childNodeId, Len(model.nodes))
                THEN /\ callStack' = advanced
                     /\ UNCHANGED <<walkPc, nodeResults>>
                ELSE IF childNodeId \in Ancestors
                THEN /\ walkPc' = "diverged"
                     /\ UNCHANGED <<callStack, nodeResults>>
                ELSE LET node == model.nodes[childNodeId + 1]
                         hasMesh == InRange(node.mesh, Len(model.meshes))
                     IN /\ nodeResults' =
                             Append(nodeResults,
                                    [node |-> childNodeId,
                                     meshResult |-> IF hasMesh THEN LoadMeshResult
                                                    ELSE NoMeshResult])
                        /\ callStack' =
                             Append(advanced,
                                    [node |-> childNodeId,
                                     mesh |-> IF hasMesh THEN node.mesh ELSE -1,
                                     children |-> node.children,
                                     transform |-> NodeTransform(frame.transform, node,
                                                                 childNodeId),
                                     result |-> Len(nodeResults) + 1,
                                     primitive |-> 1, child |-> 1])
                        /\ walkPc' = IF hasMesh THEN "loadMesh" ELSE "children"
  /\ UNCHANGED <<sizes, game, inputs, pc, log, buildLocals, rootTransform, roots>>

NextScene ==
  \/ loadModelAnyThreadPart
  \/ VisitRoot
  \/ LoadMeshStep
  \/ PrimitiveReturns
  \/ PrimitiveThrows
  \/ VisitChild
  \/ Next

(* scene assets: accessors, primitives, meshes, nodes, scenes *)

\* the accessors of a scene asset, by id
SceneAccessorOrder ==
  <<"positions", "indices", "normals", "invalidPositions", "invalidIndices",
    "floatIndices", "strayIndices">>

SceneAccessorID(name) ==
  (CHOOSE i \in 1..Len(SceneAccessorOrder) : SceneAccessorOrder[i] = name) - 1

SceneAccessors ==
  <<PositionAccessor(ViewValid, ParabolaPositions(3), <<>>, <<>>),
    IndexAccessor("UNSIGNED_INT", ViewValid, <<0, 1, 2>>),
    NormalAccessor(ViewValid, 3),
    PositionAccessor(ViewInvalid, <<>>, <<>>, <<>>),
    IndexAccessor("UNSIGNED_SHORT", ViewInvalid, <<>>),
    IndexAccessor("FLOAT", ViewValid, <<0, 1, 2>>),
    IndexAccessor("UNSIGNED_BYTE", ViewValid, <<0, 1, 3>>)>>

\* the primitives of the scene assets: two that are built, one whose build
\* reads past the end of the positions, and one for each way to be skipped
BuiltKinds == {"indexed", "flat"}

SkippedKinds ==
  {"points", "noPosition", "missingPosition", "invalidPosition", "invalidIndices",
   "floatIndices"}

PrimitiveKinds == BuiltKinds \cup SkippedKinds \cup {"stray"}

ScenePrimitive(kind) ==
  LET position == {<<"POSITION", SceneAccessorID("positions")>>}
      normal == {<<"NORMAL", SceneAccessorID("normals")>>}
      prim(mode, attributes, indicesID) ==
        MeshPrimitive(mode, Attributes(attributes), indicesID, -1, NoExtras)
  IN CASE kind = "indexed" ->
            prim("TRIANGLES", position \cup normal, SceneAccessorID("indices"))
       [] kind = "flat" -> prim("TRIANGLE_STRIP", position, -1)
       [] kind = "stray" ->
            prim("TRIANGLES", position, SceneAccessorID("strayIndices"))
       [] kind = "points" -> prim("POINTS", position, -1)
       [] kind = "noPosition" -> prim("TRIANGLES", normal, -1)
       [] kind = "missingPosition" ->
            prim("TRIANGLES", {<<"POSITION", Len(SceneAccessorOrder)>>}, -1)
       [] kind = "invalidPosition" ->
            prim("TRIANGLES", {<<"POSITION", SceneAccessorID("invalidPositions")>>}, -1)
       [] kind = "invalidIndices" ->
            prim("TRIANGLES", position, SceneAccessorID("invalidIndices"))
       [] OTHER -> prim("TRIANGLES", position, SceneAccessorID("floatIndices"))

Mesh(kinds) == [primitives |-> [i \in 1..Len(kinds) |-> ScenePrimitive(kinds[i])]]

Node(mesh, children, matrix) == [mesh |-> mesh, children |-> children, matrix |-> matrix]

Scene(nodes) == [nodes |-> nodes]

SceneAsset(nodes, meshes, scenes, scene, extras) ==
  [accessors |-> SceneAccessors, materials |-> <<>>, textures |-> <<>>, images |-> 0,
   nodes |-> nodes, meshes |-> meshes, scenes |-> scenes, scene |-> scene,
   extras |-> extras]

SceneOptions(physics) == [alwaysIncludeTangents |-> FALSE, physics |-> physics]

\* the state loadModelAnyThreadPart is called in
InitLoad(m, opts) ==
  /\ model = m
  /\ options = opts
  /\ primitive = ScenePrimitive("noPosition")
  /\ pc = "idle"
  /\ log = <<>>
  /\ positionView = NoView
  /\ indicesView = NoView
  /\ primitiveResult = NewPrimitiveResult
  /\ hasNormals = FALSE
  /\ hasTangents = FALSE
  /\ needsTangents = FALSE
  /\ duplicateVertices = FALSE
  /\ indices = <<>>
  /\ StaticMeshBuildVertices = <<>>
  /\ hasVertexColors = FALSE
  /\ textureCoordinateMap = EmptyMap
  /\ RenderData = NoRenderData
  /\ walkPc = "loadModel"
  /\ rootTransform = <<"transform">>
  /\ roots = NoRoots
  /\ callStack = <<>>
  /\ nodeResults = <<>>
  /\ IdleSizes
  /\ IdleGame

\* the most primitives of a mesh
MaxPrimitives == 2

NoHint == EmptyMap

UpAxisHint(value) == "gltfUpAxis" :> value

JsonNumber(n) == [isNumber |-> TRUE, number |-> n]

JsonString == [isNumber |-> FALSE, number |-> 0]

\* one node with one mesh: every list of primitives
InitSceneMeshes ==
  \E kinds \in SeqsUpTo(PrimitiveKinds, MaxPrimitives), physics \in PhysicsInterfaces :
    InitLoad(SceneAsset(<<Node(0, <<>>, "absent")>>, <<Mesh(kinds)>>,
                        <<Scene(<<0>>)>>, 0, NoHint),
             SceneOptions(physics))

SceneLists ==
  {<<>>, <<Scene(<<0>>)>>, <<Scene(<<1, 0>>), Scene(<<0>>)>>,
   <<Scene(<<>>), Scene(<<1>>)>>, <<Scene(<<0, 2>>), Scene(<<1, 1>>)>>}

UpAxisHints ==
  {NoHint, UpAxisHint(JsonNumber(Axis.X)), UpAxisHint(JsonNumber(Axis.Y)),
   UpAxisHint(JsonNumber(Axis.Z)), UpAxisHint(JsonNumber(Axis.Z + 1)),
   UpAxisHint(JsonString)}

NodeMatrices == <<"general", "identity", "absent">>

MeshLists == {<<>>, <<Mesh(<<"indexed">>)>>, <<Mesh(<<"flat", "points">>), Mesh(<<"indexed">>)>>}

\* the choice of the roots: scenes, the default scene, nodes without
\* children, meshes, the up-axis hint
InitSceneRoots ==
  \E nodeCount \in 0..2, meshes \in MeshLists, scenes \in SceneLists,
     scene \in -1..2, extras \in UpAxisHints :
    InitLoad(SceneAsset([i \in 1..nodeCount |-> Node(i - 1, <<>>, NodeMatrices[i])],
                        meshes, scenes, scene, extras),
             SceneOptions("Chaos"))

ChildLists == {<<>>, <<1>>, <<2>>, <<1, 2>>, <<2, 1>>, <<0>>, <<3, 2>>, <<-1, 1, 1>>}

RootLists == {<<0>>, <<1, 0>>, <<0, 0>>}

\* the node graph: three nodes, their children, the roots
InitSceneGraph ==
  \E children \in [1..3 -> ChildLists], rootIds \in RootLists :
    InitLoad(SceneAsset([i \in 1..3 |->
                           Node(IF i = 2 THEN -1 ELSE (i - 1) \div 2, children[i],
                                NodeMatrices[i])],
                        <<Mesh(<<"indexed">>), Mesh(<<"noPosition", "flat">>)>>,
                        <<Scene(rootIds)>>, -1, NoHint),
             SceneOptions("PhysX"))

InitScene == InitSceneMeshes \/ InitSceneRoots \/ InitSceneGraph

SpecScene == InitScene /\ [][NextScene]_vars

\* the walk takes its steps
SpecSceneFair == SpecScene /\ WF_vars(NextScene)

(* ---------------------------- index widths ----------------------------- *)

\* vertex counts around the largest 16-bit value, index counts around the
\* triangle counts at which 3 * i and the count itself leave 16 bits
VertexCounts == {0, 3, UInt16Max - 1, UInt16Max, UInt16Max + 1}

IndexCounts ==
  {0, 5, UInt16Max, UInt16Max + 6, 3 * UInt16Modulus, 3 * UInt16Modulus + 3}

\* the state SetIndices and BuildChaosTriangleMeshes are reached in, as
\* far as the widths depend on it: the sizes of the two arrays
InitSizes ==
  /\ \E vertices \in VertexCounts, indexes \in IndexCounts :
       /\ vertexCount = vertices
       /\ indexCount = indexes
  /\ widthPc = "SetIndices"
  /\ stride = 0
  /\ narrow = FALSE
  /\ fill = NoFill
  /\ model = GeometryAsset("valid", 0, "UNSIGNED_INT", "valid", <<>>)
  /\ primitive = MeshPrimitive("TRIANGLES", Attributes({<<"POSITION", PositionID>>}),
                               -1, -1, NoExtras)
  /\ options = [alwaysIncludeTangents |-> FALSE, physics |-> "Chaos"]
  /\ pc = "idle"
  /\ log = <<>>
  /\ positionView = NoView
  /\ indicesView = NoView
  /\ primitiveResult = NewPrimitiveResult
  /\ hasNormals = FALSE
  /\ hasTangents = FALSE
  /\ needsTangents = FALSE
  /\ duplicateVertices = FALSE
  /\ indices = <<>>
  /\ StaticMeshBuildVertices = <<>>
  /\ hasVertexColors = FALSE
  /\ textureCoordinateMap = EmptyMap
  /\ RenderData = NoRenderData
  /\ walkPc = "idle"
  /\ rootTransform = <<>>
  /\ roots = NoRoots
  /\ callStack = <<>>
  /\ nodeResults = <<>>
  /\ IdleGame

\* what the width actions leave alone
build == <<inputs, pc, log, buildLocals, walker>>

\* SetIndices: the stride of the render index buffer
SetIndexStride ==
  /\ widthPc = "SetIndices"
  /\ stride' = IndexStride(vertexCount)
  /\ widthPc' = IF vertexCount # 0 /\ indexCount # 0
                THEN "BuildChaosTriangleMeshes" ELSE "built"
  /\ UNCHANGED <<build, game, vertexCount, indexCount, narrow, fill>>

\* BuildChaosTriangleMeshes: the triangle type
ChooseTriangleType ==
  /\ widthPc = "BuildChaosTriangleMeshes"
  /\ narrow' = UsesNarrowIndices(vertexCount)
  /\ fill' = NoFill
  /\ widthPc' = "fillTriangles"
  /\ UNCHANGED <<build, game, vertexCount, indexCount, stride>>

\* fillTriangles<TIndex>: one turn of the loop.  ++i stays below the end
\* of the loop, which fits TIndex
FillTriangle ==
  /\ widthPc = "fillTriangles"
  /\ fill.i < ChaosLoopEnd(narrow, indexCount \div 3)
  /\ fill' = [i |-> fill.i + 1, added |-> fill.added + 1,
              index0 |-> ChaosIndex0(narrow, fill.i)]
  /\ UNCHANGED <<build, game, widthPc, vertexCount, indexCount, stride, narrow>>

\* fillTriangles<TIndex>: the end of the loop
FillReturns ==
  /\ widthPc = "fillTriangles"
  /\ ~(fill.i < ChaosLoopEnd(narrow, indexCount \div 3))
  /\ widthPc' = "built"
  /\ UNCHANGED <<build, game, vertexCount, indexCount, stride, narrow, fill>>

NextSizes == SetIndexStride \/ ChooseTriangleType \/ FillTriangle \/ FillReturns

SpecSizes == InitSizes /\ [][NextSizes]_vars

(* --------------------------- the game thread --------------------------- *)

\* the primitive results the loops of CreateOnGameThread visit, in order:
\* those of every node result that has a mesh result
RECURSIVE VisitedResults(_)
VisitedResults(results) ==
  IF results = <<>> THEN <<>>
  ELSE (IF Head(results).meshResult.loaded
        THEN Head(results).meshResult.primitiveResults
        ELSE <<>>) \o VisitedResults(Tail(results))

\* a faulty counter: nextMaterialId is read but not incremented
NextMaterialIdKept(id) == id

\* nextMaterialId++: the value left in the static counter.  The counter is
\* a uint32_t; the runs stay far below its wrap
NextMaterialId(id) == id + 1

\* the UCesiumGltfPrimitiveComponent made from the k-th visited result:
\* which result it was made from, whether that result had been filled by a
\* finished build, and the number in the name of its material slot
PrimitiveComponent(k, loadResult, id) ==
  [result |-> k, built |-> loadResult.built, ImportedSlotName |-> id]

\* CreateOffGameThread, once loadModelAnyThreadPart has returned: the
\* result is moved into the HalfConstructed the caller is given
CreateOffGameThread ==
  /\ walkPc = "returned"
  /\ invocations[1].stage = "requested"
  /\ invocations' = [invocations EXCEPT ![1].stage = "halfConstructed",
                                        ![1].loadModelResult = nodeResults]
  /\ UNCHANGED <<build, sizes, nextMaterialId, gameThread>>

\* CreateOnGameThread is entered for invocation i: the game thread runs
\* one call at a time
CreateOnGameThread(i) ==
  /\ gameThread = 0
  /\ invocations[i].stage = "halfConstructed"
  /\ invocations' = [invocations EXCEPT ![i].stage = "onGameThread"]
  /\ gameThread' = i
  /\ UNCHANGED <<build, sizes, nextMaterialId>>

\* one turn of the loops of CreateOnGameThread: loadPrimitiveGameThreadPart
\* is called with the next primitive result, filled or not.  With a result
\* no build has filled, *loadResult.pModel and the render data are not
\* those of a build: undefined behaviour, here a crash or a component made
\* from the empty result
loadPrimitiveGameThreadPart ==
  /\ gameThread # 0
  /\ LET i == gameThread
         call == invocations[i]
         visited == VisitedResults(call.loadModelResult)
     IN /\ call.stage = "onGameThread"
        /\ call.next <= Len(visited)
        /\ LET loadResult == visited[call.next]
           IN \/ /\ invocations' =
                      [invocations EXCEPT
                         ![i].meshes =
                           Append(@, PrimitiveComponent(call.next, loadResult,
                                                        nextMaterialId)),
                         ![i].next = @ + 1]
                 /\ nextMaterialId' = NextMaterialId(nextMaterialId)
              \/ /\ ~loadResult.built
                 /\ invocations' = [invocations EXCEPT ![i].stage = "crashed"]
                 /\ UNCHANGED nextMaterialId
  /\ UNCHANGED <<build, sizes, gameThread>>

\* CreateOnGameThread returns the component once every result is visited
CreateOnGameThreadReturns ==
  /\ gameThread # 0
  /\ LET i == gameThread
         call == invocations[i]
     IN /\ call.stage = "onGameThread"
        /\ call.next > Len(VisitedResults(call.loadModelResult))
        /\ invocations' = [invocations EXCEPT ![i].stage = "created"]
  /\ gameThread' = 0
  /\ UNCHANGED <<build, sizes, nextMaterialId>>

\* the scene walk followed by the game-thread part of the same invocation
NextGame ==
  \/ NextScene
  \/ CreateOffGameThread
  \/ CreateOnGameThread(1)
  \/ loadPrimitiveGameThreadPart
  \/ CreateOnGameThreadReturns

SpecGame == InitScene /\ [][NextGame]_vars

\* ---- several invocations ----

\* the assets of the invocations of a pipeline, each reduced to one mesh
\* and to what becomes of each of its primitives off the game thread
PipelineAssets ==
  {<<>>, <<"built">>, <<"skipped">>, <<"built", "built">>, <<"built", "skipped">>}

\* loadModelAnyThreadPart on such an asset: one node result, with one
\* primitive result per primitive, filled if the primitive was built
LoadModelResultOf(asset) ==
  <<[node |-> 0,
     meshResult |->
       [loaded |-> TRUE,
        primitiveResults |->
          [k \in 1..Len(asset) |->
             IF asset[k] = "built"
             THEN [built |-> TRUE, pMeshPrimitive |-> k]
             ELSE EmptyPrimitiveResult]]]>>

\* MaxInvocations invocations requested, none started
InitPipeline ==
  /\ nextMaterialId = 0
  /\ invocations \in [1..MaxInvocations -> {Requested(asset) : asset \in PipelineAssets}]
  /\ gameThread = 0
  /\ IdleSizes
  /\ model = GeometryAsset("valid", 0, "UNSIGNED_INT", "valid", <<>>)
  /\ primitive = MeshPrimitive("TRIANGLES", Attributes({<<"POSITION", PositionID>>}),
                               -1, -1, NoExtras)
  /\ options = [alwaysIncludeTangents |-> FALSE, physics |-> "Chaos"]
  /\ pc = "idle"
  /\ log = <<>>
  /\ positionView = NoView
  /\ indicesView = NoView
  /\ primitiveResult = NewPrimitiveResult
  /\ hasNormals = FALSE
  /\ hasTangents = FALSE
  /\ needsTangents = FALSE
  /\ duplicateVertices = FALSE
  /\ indices = <<>>
  /\ StaticMeshBuildVertices = <<>>
  /\ hasVertexColors = FALSE
  /\ textureCoordinateMap = EmptyMap
  /\ RenderData = NoRenderData
  /\ walkPc = "idle"
  /\ rootTransform = <<>>
  /\ roots = NoRoots
  /\ callStack = <<>>
  /\ nodeResults = <<>>

\* CreateOffGameThread of invocation i on a worker: it writes the
\* HalfConstructed it allocated and nothing else
CreateOffGameThreadOf(i) ==
  /\ invocations[i].stage = "requested"
  /\ invocations' =
       [invocations EXCEPT
          ![i].stage = "halfConstructed",
          ![i].loadModelResult = LoadModelResultOf(invocations[i].options)]
  /\ UNCHANGED <<build, sizes, nextMaterialId, gameThread>>

NextPipeline ==
  \/ \E i \in DOMAIN invocations : CreateOffGameThreadOf(i)
  \/ \E i \in DOMAIN invocations : CreateOnGameThread(i)
  \/ loadPrimitiveGameThreadPart
  \/ CreateOnGameThreadReturns

SpecPipeline == InitPipeline /\ [][NextPipeline]_vars

(* ------------------------------- claims -------------------------------- *)

\* the code blocks after the texture coordinates were consolidated
AfterTextureCoordinates ==
  {"normals", "tangents", "buffers", "winding", "setIndices", "collision", "done"}

\* the code blocks after the vertex array was filled
AfterPositions == {"colors", "textureCoordinates"} \cup AfterTextureCoordinates

\* the index buffer is final in these
AfterWinding == {"setIndices", "collision", "done"}

\* the slots of the texture-coordinate block: 1..5 the material textures,
\* then the overlay slots
AllSlots == 1..(Len(TextureSlotNames) + OverlaySlotCount)

\* the attribute name a slot asks for
SlotAttribute(n) ==
  IF n <= Len(TextureSlotNames)
  THEN TexCoordName(MaterialTextures(MaterialOf(model, primitive))[n].texCoord)
  ELSE OverlayName(n - Len(TextureSlotNames) - 1)

\* the slot is present and its attribute name resolves to an accessor id
SlotResolves(n) ==
  /\ n <= Len(TextureSlotNames) => MaterialTextures(MaterialOf(model, primitive))[n].present
  /\ SlotAttribute(n) \in DOMAIN primitive.attributes

SlotAccessor(n) == primitive.attributes[SlotAttribute(n)]

\* the channel index reported for a slot
SlotChannel(n) ==
  IF n <= Len(TextureSlotNames)
  THEN primitiveResult.textureCoordinateParameters[TextureSlotNames[n]]
  ELSE primitiveResult.overlayTextureCoordinateIDToUVIndex[n - Len(TextureSlotNames)]

ResolvingSlots == {n \in AllSlots : SlotResolves(n)}

\* C1: within one primitive build, any two updateTextureCoordinates calls
\* whose attribute name resolves to the same UV accessor id return the same
\* channel index, whatever the status of the accessor's view.
C1_SameAccessorSameChannel ==
  pc \in AfterTextureCoordinates =>
    \A a, b \in ResolvingSlots :
      SlotAccessor(a) = SlotAccessor(b) => SlotChannel(a) = SlotChannel(b)

\* triangle k (from 0) of an index sequence
Triple(idx, k) == <<idx[3 * k + 1], idx[3 * k + 2], idx[3 * k + 3]>>

Reversed(t) == <<t[3], t[2], t[1]>>

WholeTriangles(idx) == 0..((Len(idx) \div 3) - 1)

\* what the winding step does to the index buffer
WindingStepReverses ==
  /\ Len(indices') = Len(indices)
  /\ \A j \in 1..Len(indices) : j > 3 * (Len(indices) \div 3) => indices'[j] = indices[j]
  /\ \A k \in WholeTriangles(indices) :
       IF duplicateVertices
       THEN /\ Triple(indices', k) = <<3 * k + 2, 3 * k + 1, 3 * k>>
            /\ \A r \in 1..3 :
                 StaticMeshBuildVertices[3 * k + r].Position
                   = positionView.data[indices[3 * k + r] + 1]
       ELSE Triple(indices', k) = Reversed(Triple(indices, k))

\* C2: winding reversal is applied exactly once per triangle.  The winding
\* step turns every triangle (a,b,c) of the normalized list into (c,b,a) at
\* the same triangle position - for duplicated vertices into
\* (3k+2, 3k+1, 3k) over vertices that carry the positions of a, b, c in
\* that order - and no other step after the topology normalization changes
\* the index buffer; the render index buffer is given the result.
C2_WindingReversedOnce ==
  [][/\ pc = "winding" => WindingStepReverses
     /\ pc \in (AfterPositions \cup {"positions"}) \ {"winding"} => indices' = indices
     /\ pc = "setIndices" => RenderData'.IndexBuffer.indices = indices]_vars

\* C2 witness: a finished shared-vertex build of two triangles, the first
\* with distinct corners
C2_Witness ==
  /\ pc = "done"
  /\ ~duplicateVertices
  /\ Len(indices) >= 6
  /\ Cardinality({indices[1], indices[2], indices[3]}) = 3
  /\ Triple(indices, 0) # Triple(indices, 1)

CollisionTriangles == primitiveResult.pCollisionMesh.triangles

RenderIndices == RenderData.IndexBuffer.indices

\* the three rotations of a triangle: the triples of the same orientation
Rotations(t) == {t, <<t[2], t[3], t[1]>>, <<t[3], t[1], t[2]>>}

FitsIndexType(bits, idx, k) ==
  bits = 16 =>
    /\ 3 * k + 2 < UInt16Modulus
    /\ \A r \in 1..3 : InRange(idx[3 * k + r], UInt16Modulus)

C4_IndexCountMultipleOf3 ==
  pc = "done" /\ primitive.mode = "TRIANGLES" => Len(RenderIndices) % 3 = 0

\* the source indices of the primitive
SourceIndices == indicesView.data

\* strip triangle i (from 0) of the source indices s, as the fan rule
\* states it
StripTriple(s, i) ==
  IF i % 2 = 0
  THEN <<s[i + 1], s[i + 2], s[i + 3]>>
  ELSE <<s[i + 1], s[i + 3], s[i + 2]>>

\* C5: a TRIANGLE_STRIP of M >= 3 source indices is expanded, before the
\* winding conversion, to exactly 3 * (M - 2) indices; triangle i is
\* (s[i], s[i+1], s[i+2]) for even i and (s[i], s[i+2], s[i+1]) for odd i.
C5_StripExpansion ==
  pc \in {"positions", "colors", "textureCoordinates", "normals", "tangents",
          "buffers", "winding"}
    /\ primitive.mode = "TRIANGLE_STRIP" /\ Len(SourceIndices) >= 3 =>
      /\ Len(indices) = 3 * (Len(SourceIndices) - 2)
      /\ \A i \in 0..(Len(SourceIndices) - 3) :
           Triple(indices, i) = StripTriple(SourceIndices, i)

\* C5 witness: a strip of five indices, expanded, whose second triangle has
\* distinct corners
C5_Witness ==
  /\ pc = "winding"
  /\ primitive.mode = "TRIANGLE_STRIP"
  /\ Len(SourceIndices) >= 5
  /\ Cardinality({SourceIndices[2], SourceIndices[3], SourceIndices[4]}) = 3

\* C6: duplicateVertices = !hasValidNormals || (tangentsRequired &&
\* !hasValidTangents), for every combination of the inputs; when NORMAL is
\* absent or its view is invalid the vertices are duplicated and the vertex
\* array is as long as the index array.
C6_DuplicationDecision ==
  pc \in AfterPositions =>
    /\ hasNormals = HasValidAttribute(model, primitive, "NORMAL")
    /\ hasTangents = HasValidAttribute(model, primitive, "TANGENT")
    /\ duplicateVertices <=> (~hasNormals \/ (needsTangents /\ ~hasTangents))
    /\ ~HasValidAttribute(model, primitive, "NORMAL") =>
         /\ duplicateVertices
         /\ Len(StaticMeshBuildVertices) = Len(indices)

\* C6 witness: valid normals, tangents required but not valid: duplicated
C6_Witness ==
  /\ pc = "done"
  /\ hasNormals /\ needsTangents /\ ~hasTangents
  /\ duplicateVertices
  /\ Len(StaticMeshBuildVertices) >= 3

\* the normalized triangle list of the source indices
NormalizedSource ==
  IF primitive.mode = "TRIANGLE_STRIP"
  THEN [j \in 1..(3 * (Len(SourceIndices) - 2)) |->
         StripTriple(SourceIndices, (j - 1) \div 3)[((j - 1) % 3) + 1]]
  ELSE SourceIndices

\* the values of a triangle, with their multiplicities
TripleBag(t) == [v \in {t[1], t[2], t[3]} |-> Cardinality({r \in 1..3 : t[r] = v})]

\* C7: with duplicated vertices the vertex array is as long as the final
\* index array and vertex i carries the position of source vertex
\* indices[i]; otherwise the vertex array has one vertex per position,
\* vertex i carries position i, and the final index values are the source
\* values, reordered only within each triangle.
C7_VertexLayout ==
  pc = "done" =>
    IF duplicateVertices
    THEN /\ Len(StaticMeshBuildVertices) = Len(RenderIndices)
         /\ Len(StaticMeshBuildVertices) = Len(NormalizedSource)
         /\ \A i \in 1..Len(StaticMeshBuildVertices) :
              StaticMeshBuildVertices[i].Position
                = positionView.data[NormalizedSource[i] + 1]
    ELSE /\ Len(StaticMeshBuildVertices) = Len(positionView.data)
         /\ \A i \in 1..Len(StaticMeshBuildVertices) :
              StaticMeshBuildVertices[i].Position = positionView.data[i]
         /\ Len(RenderIndices) = Len(NormalizedSource)
         /\ \A k \in WholeTriangles(RenderIndices) :
              TripleBag(Triple(RenderIndices, k)) = TripleBag(Triple(NormalizedSource, k))
         /\ \A j \in 1..Len(RenderIndices) :
              j > 3 * (Len(RenderIndices) \div 3) => RenderIndices[j] = NormalizedSource[j]

\* C7 witness: duplicated vertices whose source indices are not 0, 1, 2, ...
\* over distinct positions
C7_Witness ==
  /\ pc = "done"
  /\ duplicateVertices
  /\ Len(StaticMeshBuildVertices) >= 3
  /\ \E i \in 1..Len(NormalizedSource) : NormalizedSource[i] # i - 1
  /\ Cardinality({positionView.data[i] : i \in 1..Len(positionView.data)}) >= 2

PositionAccessorOf == model.accessors[primitive.attributes["POSITION"] + 1]

\* C8: the bounding box is the declared min/max of the position accessor
\* when both have three components; otherwise it is the true per-axis
\* extrema of the positions.
C8_BoundingBox ==
  pc \in {"indices", "positions"} \cup AfterPositions =>
    LET acc == PositionAccessorOf
        box == RenderData.aaBox
        data == positionView.data
    IN /\ Len(acc.min) = 3 /\ Len(acc.max) = 3 =>
            box.Min = acc.min /\ box.Max = acc.max
       /\ ~(Len(acc.min) = 3 /\ Len(acc.max) = 3) /\ Len(data) > 0 =>
            \A a \in 1..3 :
              /\ \A i \in 1..Len(data) : box.Min[a] <= data[i][a] /\ data[i][a] <= box.Max[a]
              /\ \E i \in 1..Len(data) : box.Min[a] = data[i][a]
              /\ \E i \in 1..Len(data) : box.Max[a] = data[i][a]
       /\ RenderData.Bounds.Origin2 = Add3(box.Min, box.Max)
       /\ RenderData.Bounds.BoxExtent2 = Sub3(box.Max, box.Min)

\* C8 witness: a declared box that is not the box of the positions
C8_Witness ==
  /\ pc = "done"
  /\ Len(PositionAccessorOf.min) = 3 /\ Len(PositionAccessorOf.max) = 3
  /\ RenderData.aaBox.Min = PositionAccessorOf.min
  /\ \E i \in 1..Len(positionView.data) :
       positionView.data[i][1] < RenderData.aaBox.Min[1]

\* the accessor ids the resolving slots reference
ReferencedAccessors == {SlotAccessor(n) : n \in ResolvingSlots}

\* the first slot, in slot order, that references the accessor
FirstSlotOf(id) ==
  CHOOSE n \in ResolvingSlots :
    /\ SlotAccessor(n) = id
    /\ \A m \in ResolvingSlots : SlotAccessor(m) = id => n <= m

\* C9: the channel indices are assigned contiguously from 0 in
\* first-encountered order over the slots (base color, metallic-roughness,
\* normal, occlusion, emissive, then the overlays ascending): the reported
\* channels are exactly 0..n-1 for n referenced accessors, a slot reports
\* the number of accessors first encountered before its own, and two slots
\* on the same accessor report the same channel.
C9_ChannelsContiguous ==
  pc \in AfterTextureCoordinates =>
    /\ {SlotChannel(n) : n \in ResolvingSlots} = 0..(Cardinality(ReferencedAccessors) - 1)
    /\ \A n \in ResolvingSlots :
         SlotChannel(n)
           = Cardinality({SlotAccessor(m) :
                            m \in {q \in ResolvingSlots : q < FirstSlotOf(SlotAccessor(n))}})
    /\ \A a, b \in ResolvingSlots :
         SlotAccessor(a) = SlotAccessor(b) => SlotChannel(b) = SlotChannel(a)

MapSize == Cardinality(DOMAIN textureCoordinateMap)

\* C10 as claimed: the render vertex buffer is given as many UV channels
\* as the consolidation map has entries, also when the map is empty.
C10_UVChannelsEqualMapSize ==
  pc \in {"winding"} \cup AfterWinding => RenderData.NumTexCoords = MapSize

\* C10 as amended: the render vertex buffer is given as many UV channels as
\* the consolidation map has entries when it has any, and one channel when
\* it has none; every channel of the map is a channel of the buffer.
C10_UVChannelCount ==
  pc \in {"winding"} \cup AfterWinding =>
    /\ MapSize > 0 => RenderData.NumTexCoords = MapSize
    /\ MapSize = 0 => RenderData.NumTexCoords = 1
    /\ \A id \in DOMAIN textureCoordinateMap :
         textureCoordinateMap[id] < RenderData.NumTexCoords

\* C10 witness: a finished build, with vertices, no slot of which
\* references a UV accessor
C10_Witness ==
  /\ pc = "done"
  /\ ResolvingSlots = {}
  /\ MapSize = 0
  /\ Len(StaticMeshBuildVertices) > 0

\* the source element vertex i (from 1) of the built primitive was copied
\* from
VertexSource(i) == IF duplicateVertices THEN NormalizedSource[i] ELSE i - 1

\* has channel c of the vertex been written with (0,0)
HoldsZeroUV(vertex, c) == c \in DOMAIN vertex.UVs /\ vertex.UVs[c] = Zero2

\* C11: when a UV accessor referenced by a texture or overlay slot has an
\* invalid view, the primitive is still built and the channel assigned to
\* the accessor holds (0,0) for every vertex, whichever channel it is; a
\* valid UV accessor shorter than the vertex range yields (0,0) for the
\* vertices out of its range.
C11_ZeroedUVFallback ==
  pc = "done" =>
    \A id \in DOMAIN textureCoordinateMap :
      LET view == AccessorView(model, id)
      IN \A i \in 1..Len(StaticMeshBuildVertices) :
           (view.status # ViewValid \/ ~InRange(VertexSource(i), Len(view.data))) =>
             HoldsZeroUV(StaticMeshBuildVertices[i], textureCoordinateMap[id])

\* the skip conditions of a primitive: unsupported topology, absent or
\* invalid position accessor, invalid index view, unsupported index
\* component type
SkipCondition(prim) ==
  \/ prim.mode \notin {"TRIANGLES", "TRIANGLE_STRIP"}
  \/ "POSITION" \notin DOMAIN prim.attributes
  \/ ~InRange(prim.attributes["POSITION"], Len(model.accessors))
  \/ model.accessors[prim.attributes["POSITION"] + 1].status # ViewValid
  \/ /\ InRange(prim.indices, Len(model.accessors))
     /\ \/ model.accessors[prim.indices + 1].status # ViewValid
        \/ model.accessors[prim.indices + 1].componentType
             \notin {"BYTE", "UNSIGNED_BYTE", "SHORT", "UNSIGNED_SHORT", "UNSIGNED_INT"}

\* the node results that carry a mesh result
MeshResults == {k \in 1..Len(nodeResults) : nodeResults[k].meshResult.loaded}

\* the primitives of the mesh of node result k
PrimitivesOfResult(k) ==
  IF nodeResults[k].node = -1
  THEN model.meshes[k].primitives
  ELSE model.meshes[model.nodes[nodeResults[k].node + 1].mesh + 1].primitives

PrimitiveResultsOf(k) == nodeResults[k].meshResult.primitiveResults

\* all primitive results of the load, as pairs of node result and position
AllPrimitiveResults ==
  {<<k, j>> \in (1..Len(nodeResults)) \X (1..(MaxPrimitives + 1)) :
     k \in MeshResults /\ j <= Len(PrimitiveResultsOf(k))}

\* C12: a skip condition aborts only the primitive it occurs in.  When the
\* load has returned, every mesh visited has a result for each of its
\* primitives, in the order of the mesh; the result is built exactly for
\* the primitives without skip condition, whatever stands before them; and
\* the result of a built primitive depends on the primitive and its
\* transform only, so it is the same as without the skipped ones.
C12_SkipAbortsOnlyThePrimitive ==
  walkPc = "returned" =>
    /\ \A k \in MeshResults :
         /\ Len(PrimitiveResultsOf(k)) = Len(PrimitivesOfResult(k))
         /\ \A j \in 1..Len(PrimitivesOfResult(k)) :
              LET result == PrimitiveResultsOf(k)[j]
              IN /\ result.built <=> ~SkipCondition(PrimitivesOfResult(k)[j])
                 /\ result.built => result.pMeshPrimitive = PrimitivesOfResult(k)[j]
    /\ \A a, b \in AllPrimitiveResults :
         LET ra == PrimitiveResultsOf(a[1])[a[2]]
             rb == PrimitiveResultsOf(b[1])[b[2]]
         IN ra.built /\ rb.built /\ ra.pMeshPrimitive = rb.pMeshPrimitive
              /\ ra.transform = rb.transform => ra = rb

\* C12 witness: a mesh whose first primitive was skipped and whose second
\* was built, and a mesh built in a node visited after it
C12_Witness ==
  /\ walkPc = "returned"
  /\ \E k \in MeshResults :
       /\ Len(PrimitiveResultsOf(k)) = 2
       /\ ~PrimitiveResultsOf(k)[1].built
       /\ PrimitiveResultsOf(k)[2].built
       /\ PrimitiveResultsOf(k)[2].RenderData.PositionVertexBuffer = 3
       /\ \E n \in MeshResults : n > k /\ PrimitiveResultsOf(n)[1].built

\* C13: every primitive that is visited and for which no render data is
\* produced emits a diagnostic log entry, for each way a build can be
\* abandoned: no POSITION attribute, position accessor id out of range,
\* invalid position view, invalid index view, unsupported index component
\* type, unsupported topology.
C13_SkippedPrimitiveIsLogged ==
  pc = "skipped" => ~primitiveResult.RenderData /\ Len(log) > 0

\* C14: the overall scene build always completes: for every scene asset,
\* whatever the child references between its nodes (a node that is its own
\* ancestor, a node shared by several parents), loadModelAnyThreadPart
\* eventually returns.  The formula asks for less, that the load comes to
\* an end at all - by its return, or by an exception or a crash that the
\* child references have no part in.
C14_SceneBuildCompletes == <>(walkPc \in {"returned", "thrown", "crashed"})

\* the view of COLOR_0, when the primitive has it
ColorView == AccessorView(model, primitive.attributes["COLOR_0"])

\* the source elements the color copy reads one for
ColorSources ==
  {VertexSource(i) : i \in 1..(IF duplicateVertices THEN Len(indices)
                               ELSE Len(StaticMeshBuildVertices))}

\* C15: vertex colors are all-or-nothing per primitive.  hasVertexColors is
\* true only if COLOR_0 is present, its view is valid, its element shape is
\* 3- or 4-component float, uint8 or uint16, and it has an element for
\* every vertex that is read; in every other case they are disabled for the
\* whole primitive, no color buffer is initialised, and the primitive is
\* still built.
C15_VertexColorsAllOrNothing ==
  pc = "done" =>
    /\ RenderData.ColorVertexBuffer = hasVertexColors
    /\ RenderData.bHasColorVertexData = hasVertexColors
    /\ hasVertexColors <=>
         /\ "COLOR_0" \in DOMAIN primitive.attributes
         /\ ColorView.status = ViewValid
         /\ ColorView.type \in {"VEC3", "VEC4"}
         /\ ColorView.componentType \in {"FLOAT", "UNSIGNED_BYTE", "UNSIGNED_SHORT"}
         /\ \A v \in ColorSources : InRange(v, Len(ColorView.data))

\* the 8-bit value a source channel converts to
ExpectedChannel(componentType, value) ==
  CASE componentType = "UNSIGNED_BYTE" -> value
    [] componentType = "UNSIGNED_SHORT" -> value \div 256
    [] OTHER -> IF value >= 0 THEN (value * 255) \div 1000
                ELSE -(((-value) * 255) \div 1000)

\* C16: color channel conversion to 8 bits.  A uint8 channel passes
\* through, a uint16 channel v becomes floor(v / 256), within 0..255, a
\* float channel f becomes the truncation of f * 255, and alpha is 255 when
\* the source has 3 components.
C16_ColorConversion ==
  pc = "done" /\ hasVertexColors =>
    \A i \in 1..Len(StaticMeshBuildVertices) :
      LET source == ColorView.data[VertexSource(i) + 1]
          color == StaticMeshBuildVertices[i].Color
      IN /\ \A c \in 1..3 :
              /\ color[c] = ExpectedChannel(ColorView.componentType, source[c])
              /\ color[c] \in 0..255
         /\ color[4] = IF ColorView.type = "VEC3" THEN 255
                       ELSE ExpectedChannel(ColorView.componentType, source[4])

\* the entries of the default scene, the first scene, node 0, or every mesh
ExpectedRoots ==
  IF InRange(model.scene, Len(model.scenes)) THEN model.scenes[model.scene + 1].nodes
  ELSE IF model.scenes # <<>> THEN model.scenes[1].nodes
  ELSE IF model.nodes # <<>> THEN <<0>>
  ELSE [i \in 1..Len(model.meshes) |-> i - 1]

RootsAreMeshes == model.scenes = <<>> /\ model.nodes = <<>>

\* C17: the roots are chosen by priority: the nodes of the default scene
\* if its index is in range; else the nodes of the first scene; else node
\* 0; else every mesh as a root of its own, one node result per mesh in
\* the order of the meshes, built with the root transform; with no mesh
\* either the result is empty.
C17_RootSelection ==
  /\ walkPc # "loadModel" =>
       /\ roots.ids = ExpectedRoots
       /\ roots.ids # <<>> => (roots.kind = "meshes" <=> RootsAreMeshes)
  /\ walkPc = "returned" /\ ExpectedRoots = <<>> => nodeResults = <<>>
  /\ walkPc = "returned" /\ ExpectedRoots # <<>> /\ ~RootsAreMeshes =>
       nodeResults # <<>> /\ nodeResults[1].node = ExpectedRoots[1]
  /\ walkPc = "returned" /\ RootsAreMeshes =>
       /\ Len(nodeResults) = Len(model.meshes)
       /\ \A k \in 1..Len(nodeResults) :
            /\ nodeResults[k].meshResult.loaded
            /\ Len(PrimitiveResultsOf(k)) = Len(model.meshes[k].primitives)
            /\ \A j \in 1..Len(PrimitiveResultsOf(k)) :
                 LET result == PrimitiveResultsOf(k)[j]
                 IN result.built =>
                      /\ result.pMeshPrimitive = model.meshes[k].primitives[j]
                      /\ result.transform = rootTransform

\* C17 witness: a model without scenes and nodes, a node result for each
\* of its two meshes
C17_Witness ==
  /\ walkPc = "returned"
  /\ RootsAreMeshes
  /\ Len(nodeResults) = 2
  /\ PrimitiveResultsOf(1)[1].built
  /\ ~PrimitiveResultsOf(1)[2].built
  /\ PrimitiveResultsOf(2)[1].built

RECURSIVE PreOrder(_, _)
RECURSIVE PreOrderOfAll(_, _)
\* node nodeId, then the nodes below its children, child by child; fuel
\* bounds the depth
PreOrder(nodeId, fuel) ==
  IF fuel = 0 THEN <<>>
  ELSE <<nodeId>> \o PreOrderOfAll(model.nodes[nodeId + 1].children, fuel - 1)

PreOrderOfAll(ids, fuel) ==
  IF ids = <<>> THEN <<>>
  ELSE (IF InRange(Head(ids), Len(model.nodes)) THEN PreOrder(Head(ids), fuel)
        ELSE <<>>) \o PreOrderOfAll(Tail(ids), fuel)

RootsInRange == \A i \in 1..Len(roots.ids) : InRange(roots.ids[i], Len(model.nodes))

\* C18: the node results are in depth-first pre-order: a node before its
\* children, the children in the order they are declared, a root after
\* all of the root before it; the primitive results of a mesh are in the
\* order the mesh declares its primitives.  Stated for a load that
\* returned and whose root ids name nodes of the model.
C18_DepthFirstPreOrder ==
  walkPc = "returned" /\ roots.kind = "nodes" /\ RootsInRange =>
    /\ [k \in 1..Len(nodeResults) |-> nodeResults[k].node]
         = PreOrderOfAll(roots.ids, Len(model.nodes))
    /\ \A k \in MeshResults :
         /\ Len(PrimitiveResultsOf(k)) = Len(PrimitivesOfResult(k))
         /\ \A j \in 1..Len(PrimitiveResultsOf(k)) :
              PrimitiveResultsOf(k)[j].built =>
                PrimitiveResultsOf(k)[j].pMeshPrimitive = PrimitivesOfResult(k)[j]

\* C18 witness: root 0 with the children 2 and 1, in this order, node 1
\* with the child 2: node 2 is visited before node 1 and once more below it
C18_Witness ==
  /\ walkPc = "returned"
  /\ roots.kind = "nodes"
  /\ [k \in 1..Len(nodeResults) |-> nodeResults[k].node] = <<0, 2, 1, 2>>
  /\ PrimitiveResultsOf(2)[2].built

\* transform is the root transform followed by factors of nodes only
RootThenNodes(transform) ==
  /\ Len(transform) >= Len(rootTransform)
  /\ SubSeq(transform, 1, Len(rootTransform)) = rootTransform
  /\ \A i \in (Len(rootTransform) + 1)..Len(transform) :
       transform[i][1] \in {"matrix", "translation rotation scale"}

\* the correction the hint of the model asks for
ExpectedCorrection ==
  IF "gltfUpAxis" \notin DOMAIN model.extras THEN <<"Y_UP_TO_Z_UP">>
  ELSE LET hint == model.extras["gltfUpAxis"]
       IN IF ~hint.isNumber THEN <<"Y_UP_TO_Z_UP">>
          ELSE IF hint.number = 0 THEN <<"X_UP_TO_Z_UP">>
          ELSE IF hint.number = 1 THEN <<"Y_UP_TO_Z_UP">>
          ELSE <<>>

\* C19: exactly one up-axis correction out of X-up-to-Z-up, Y-up-to-Z-up
\* and no correction is applied to the root transform, once, before any
\* node or mesh is visited, and never again: Y-up-to-Z-up when the model
\* has no gltfUpAxis hint, otherwise the one of the hinted axis.  The root
\* transform keeps this value to the end of the load, and the transform of
\* every call in progress and of every primitive built starts with it and
\* has no further correction.
C19_UpAxisCorrectionOnce ==
  /\ walkPc = "loadModel" =>
       rootTransform = <<"transform">> /\ nodeResults = <<>> /\ callStack = <<>>
  /\ walkPc # "loadModel" =>
       /\ rootTransform = <<"transform">> \o ExpectedCorrection
       /\ \A i \in 1..Len(callStack) : RootThenNodes(callStack[i].transform)
       /\ \A a \in AllPrimitiveResults :
            LET result == PrimitiveResultsOf(a[1])[a[2]]
            IN result.built => RootThenNodes(result.transform)

\* C19 witness: a model hinted X-up whose second node, with a matrix of
\* its own, has a primitive built
C19_Witness ==
  /\ walkPc = "returned"
  /\ "gltfUpAxis" \in DOMAIN model.extras
  /\ rootTransform = <<"transform", "X_UP_TO_Z_UP">>
  /\ \E a \in AllPrimitiveResults :
       /\ PrimitiveResultsOf(a[1])[a[2]].built
       /\ PrimitiveResultsOf(a[1])[a[2]].transform
            = <<"transform", "X_UP_TO_Z_UP", <<"translation rotation scale", 1>>>>

\* the normal texture of the primitive's material names a texture of the
\* model whose source names an image of the model
NormalTextureResolves ==
  LET normalTexture == MaterialOf(model, primitive).normalTexture
  IN /\ normalTexture.present
     /\ normalTexture.index \in 0..(Len(model.textures) - 1)
     /\ model.textures[normalTexture.index + 1].source \in 0..(model.images - 1)

\* C20: tangents are required exactly when the normal texture resolves to
\* an in-range texture whose source is an in-range image, or
\* alwaysIncludeTangents is set, or the water effect is active (onlyWater is
\* true or a water-mask texture was loaded).  When none of these holds, so
\* that no tangent is synthesized, a primitive without TANGENT accessor
\* gets zero tangents and bitangents.
C20_TangentsRequired ==
  /\ pc \in AfterPositions =>
       (needsTangents <=>
          \/ NormalTextureResolves
          \/ options.alwaysIncludeTangents
          \/ primitiveResult.onlyWater
          \/ primitiveResult.waterMaskTexture)
  /\ pc = "done" /\ ~needsTangents /\ "TANGENT" \notin DOMAIN primitive.attributes =>
       \A i \in 1..Len(StaticMeshBuildVertices) :
         /\ StaticMeshBuildVertices[i].TangentX = Zero3
         /\ StaticMeshBuildVertices[i].TangentY = Zero3

\* C20 witness: no normal map, alwaysIncludeTangents off, a water mask
\* loaded: tangents are required and were synthesized for a triangle
C20_Witness ==
  /\ pc = "done"
  /\ ~NormalTextureResolves
  /\ ~options.alwaysIncludeTangents
  /\ ~primitiveResult.onlyWater
  /\ primitiveResult.waterMaskTexture
  /\ needsTangents
  /\ "TANGENT" \notin DOMAIN primitive.attributes
  /\ Len(StaticMeshBuildVertices) = 3
  /\ StaticMeshBuildVertices[1].TangentX # Zero3

\* a primitive with nothing but a POSITION accessor of 3 elements: no
\* indices, no normal map, the option off, no water
OnlyThreePositions ==
  /\ primitive.mode = "TRIANGLES"
  /\ DOMAIN primitive.attributes = {"POSITION"}
  /\ primitive.indices = -1
  /\ Len(PositionAccessorOf.data) = 3
  /\ ~NormalTextureResolves
  /\ ~options.alwaysIncludeTangents
  /\ primitive.extras = NoExtras

\* C21: end to end, a TRIANGLES primitive with only a POSITION accessor of
\* 3 elements (no indices, no NORMAL, no normal map, flags off) produces
\* exactly 3 duplicated vertices at the three positions, the same flat
\* normal on all three, cross(p1 - p0, p2 - p0) of the source order
\* normalized, which is (0,0,1) for (0,0,0),(1,0,0),(0,1,0); zero tangents;
\* and exactly one index triple, (2,1,0).
C21_FlatTriangleEndToEnd ==
  pc = "done" /\ OnlyThreePositions =>
    LET p == PositionAccessorOf.data
        normal == GetSafeNormal(CrossProduct(Sub3(p[2], p[1]), Sub3(p[3], p[1])))
    IN /\ duplicateVertices
       /\ Len(StaticMeshBuildVertices) = 3
       /\ \A i \in 1..3 :
            /\ StaticMeshBuildVertices[i].Position = p[i]
            /\ StaticMeshBuildVertices[i].TangentZ = normal
            /\ StaticMeshBuildVertices[i].TangentX = Zero3
            /\ StaticMeshBuildVertices[i].TangentY = Zero3
       /\ p = <<<<0, 0, 0>>, <<1, 0, 0>>, <<0, 1, 0>>>> =>
            StaticMeshBuildVertices[1].TangentZ = <<0, 0, 1>>
       /\ indices = <<2, 1, 0>>
       /\ RenderData.IndexBuffer.indices = <<2, 1, 0>>
       /\ RenderData.PositionVertexBuffer = 3

\* C21 witness: the triangle (0,0,0),(1,0,0),(0,1,0) built
C21_Witness ==
  /\ pc = "done"
  /\ OnlyThreePositions
  /\ PositionAccessorOf.data = <<<<0, 0, 0>>, <<1, 0, 0>>, <<0, 1, 0>>>>
  /\ StaticMeshBuildVertices[3].TangentZ = <<0, 0, 1>>
  /\ indices = <<2, 1, 0>>

\* a collision mesh is built for these sizes
CollisionIsBuilt == vertexCount # 0 /\ indexCount # 0

\* C22: the collision mesh uses the narrow (16-bit) triangle index type
\* exactly when the vertex count is below 65535 and the wide (32-bit) type
\* otherwise, and the render index buffer has the 16-bit stride below the
\* same count and the 32-bit stride from it on: the two never disagree.
C22_SameWidthThreshold ==
  /\ widthPc # "SetIndices" => stride = IF vertexCount < 65535 THEN 16 ELSE 32
  /\ widthPc \in {"fillTriangles", "built"} /\ CollisionIsBuilt =>
       /\ narrow <=> vertexCount < 65535
       /\ narrow <=> stride = 16

\* C22 witness: 65535 vertices, which both take as wide, and 65534, which
\* both take as narrow, are one vertex apart; here the first, with
\* triangles added
C22_Witness ==
  /\ widthPc = "built"
  /\ vertexCount = 65535
  /\ stride = 32
  /\ ~narrow
  /\ fill.added = 21845

\* C27: the Chaos collision mesh has exactly indices.Num() / 3 triangles
\* and triangle k is built from the index-buffer entries 3k, 3k+1, 3k+2,
\* for every vertex count and triangle count, also where the loop counter
\* and 3 * i are computed in 16 bits.
C27_ChaosTriangleCount ==
  /\ widthPc \in {"fillTriangles", "built"} /\ fill.added > 0 =>
       fill.index0 = 3 * (fill.added - 1)
  /\ widthPc = "built" /\ CollisionIsBuilt => fill.added = indexCount \div 3

\* the code blocks that copy or compute vertex attributes, and the two
\* that size the buffers and convert the winding
AttributeBlocks == {"positions", "colors", "textureCoordinates", "normals", "tangents"}

\* idx is the winding conversion of the normalized triangle list
WindingConverted(idx) ==
  /\ Len(idx) = Len(NormalizedSource)
  /\ \A k \in WholeTriangles(idx) :
       Triple(idx, k) = IF duplicateVertices
                        THEN <<3 * k + 2, 3 * k + 1, 3 * k>>
                        ELSE Reversed(Triple(NormalizedSource, k))
  /\ \A j \in 1..Len(idx) : j > 3 * (Len(idx) \div 3) => idx[j] = NormalizedSource[j]

\* C25: the order inside one primitive build.  The topology is normalized
\* first, before any vertex exists; the position, color, UV, normal and
\* tangent blocks all start with the index buffer as normalized, not yet
\* converted, and the vertices in that order; the winding conversion
\* comes after them; and the index buffer handed to the renderer and to
\* the collision extraction is the converted one.
C25_BuildOrder ==
  /\ pc \in {"loadPrimitive", "validate", "attributes", "bounds", "indices"} =>
       indices = <<>> /\ StaticMeshBuildVertices = <<>>
  /\ pc \in AttributeBlocks \cup {"buffers", "winding"} => indices = NormalizedSource
  /\ pc \in AttributeBlocks \ {"positions"} /\ duplicateVertices =>
       \A i \in 1..Len(StaticMeshBuildVertices) :
         StaticMeshBuildVertices[i].Position = positionView.data[NormalizedSource[i] + 1]
  /\ pc \in {"setIndices", "collision", "done"} => WindingConverted(indices)
  /\ pc \in {"collision", "done"} => WindingConverted(RenderIndices)
  /\ pc = "done" /\ primitiveResult.pCollisionMesh.kind = "PhysX" =>
       \A k \in WholeTriangles(indices) :
         CollisionTriangles[k + 1] = Triple(indices, k)

\* C25 witness: a finished shared-vertex build of a strip of two
\* triangles with a PhysX collision mesh
C25_Witness ==
  /\ pc = "done"
  /\ primitive.mode = "TRIANGLE_STRIP"
  /\ ~duplicateVertices
  /\ Len(indices) = 6
  /\ indices # NormalizedSource
  /\ primitiveResult.pCollisionMesh.kind = "PhysX"

\* C26: in every built primitive every value of the final index buffer is
\* smaller than the length of the vertex array, for every content of the
\* source index accessor.
C26_IndicesBelowVertexCount ==
  pc = "done" =>
    \A j \in 1..Len(RenderIndices) :
      RenderIndices[j] \in 0..(Len(StaticMeshBuildVertices) - 1)

\* C29: a TRIANGLE_STRIP primitive with fewer than 3 source indices yields
\* an empty index buffer and no collision mesh, and its build does not
\* fail: the size 3 * (M - 2) asked of the index array is never negative.
C29_ShortStrip ==
  primitive.mode = "TRIANGLE_STRIP" /\ indicesView.status = ViewValid
    /\ Len(SourceIndices) < 3 =>
      /\ pc # "fault"
      /\ pc \in AttributeBlocks => 3 * (Len(SourceIndices) - 2) >= 0
      /\ pc = "done" =>
           /\ RenderIndices = <<>>
           /\ primitiveResult.pCollisionMesh.kind = "none"


\* ---- references of the scene graph ----

\* the node ids loadNode was entered with (-1 stands for a mesh loaded
\* without a node)
EnteredNodes == {nodeResults[k].node : k \in 1..Len(nodeResults)} \ {-1}

\* C30: every node id and every mesh id the walk dereferences is within the
\* bounds of the model's node and mesh arrays, the root node ids of the
\* selected scene and of the scene-less fallback included; a reference out
\* of bounds is ignored, not dereferenced.
C30_ReferencesInBounds ==
  /\ walkPc # "crashed"
  /\ \A id \in EnteredNodes : InRange(id, Len(model.nodes))
  /\ \A d \in 1..Len(callStack) :
       callStack[d].mesh # -1 => InRange(callStack[d].mesh, Len(model.meshes))


\* ---- determinism of the build ----

\* the fields of vertex i (from 1) the render buffers are initialised from:
\* the position and the tangent basis always, the colour when the colour
\* buffer is initialised, and the first NumTexCoords UV channels
VertexHandedOver(i) ==
  LET vertex == StaticMeshBuildVertices[i]
  IN /\ {"Position", "TangentX", "TangentY", "TangentZ"} \subseteq DOMAIN vertex
     /\ hasVertexColors => "Color" \in DOMAIN vertex
     /\ \A c \in 0..(RenderData.NumTexCoords - 1) : c \in DOMAIN vertex.UVs

\* C23: two builds of the same asset with the same root transform and the
\* same options give the same result, whatever was built before: the same
\* vertex arrays (every attribute and every UV channel handed to the
\* renderer), index arrays and texture-coordinate parameters.  Every value
\* the build writes is a function of the asset; a field it never writes
\* holds what the allocation of the vertex array left there, which differs
\* from one run to the next.  The two results are therefore equal exactly
\* when every field handed to the renderer has been written by the build.
C23_SameInputsSameResult ==
  pc = "done" => \A i \in 1..Len(StaticMeshBuildVertices) : VertexHandedOver(i)


\* ---- the consumer of the primitive results ----

\* the components made so far by the game-thread part of invocation i
MeshesOf(i) == {invocations[i].meshes[k] : k \in 1..Len(invocations[i].meshes)}

\* C28: every primitive result the game-thread part (CreateOnGameThread,
\* loadPrimitiveGameThreadPart) processes is that of a completed build,
\* with model, primitive, material and render data set: a primitive skipped
\* off the game thread is never handed to the game-thread part.
C28_ConsumerSeesOnlyBuiltResults ==
  \A i \in DOMAIN invocations :
    /\ invocations[i].stage # "crashed"
    /\ \A mesh \in MeshesOf(i) : mesh.built


\* ---- state shared by the invocations ----

\* the primitive results invocation i is to hand to the game-thread part
VisitedOf(i) == VisitedResults(LoadModelResultOf(invocations[i].options))

\* the components of invocation i had it been the only invocation
ComponentsAlone(i) ==
  [k \in 1..Len(VisitedOf(i)) |-> PrimitiveComponent(k, VisitedOf(i)[k], k - 1)]

====
